---------------------------- MODULE Spec2Model ----------------------------
(***************************************************************************)
(* Security and operational-control plane of snowflake-devhub: the user    *)
(* table with its lockout / session-version / lifecycle fields, the        *)
(* DB-backed settings with their in-process cache, the credential check,   *)
(* the maintenance gate, the permission gate, the login / registration     *)
(* handlers and the admin routes that mutate accounts.                     *)
(*                                                                         *)
(* Time is in milliseconds (Date.now()).  A request handler is one action. *)
(***************************************************************************)
EXTENDS Integers, Sequences, FiniteSets, TLC

VARIABLES
    users,          \* table users: id -> row (the domain is the set of existing ids)
    nextId,         \* sqlite AUTOINCREMENT: the id the next INSERT gets
    settingsDb,     \* table system_settings: key -> value (NULL: no row)
    settingCache,   \* SystemConfigRepository.settingCache: key -> entry (NULL: none)
    now,            \* Date.now()
    tz,             \* the server's local time-zone offset (local - UTC), ms
    tokens,         \* the credentials issued so far that the observed clients still hold
    audit,          \* table audit_logs, oldest first
    resp,           \* the request handled last and the response it got
    flagDb,         \* table feature_flags: key -> enabled (0 / 1; NoFlag: no row)
    flagCache,      \* SystemConfigRepository.flagCache: key -> entry
    buckets,        \* rateLimiter buckets: key -> bucket
    call,           \* the library call made last, with its arguments and its outcome
    changedAt,      \* another process's writes to the tables: key -> time of the last one
    pending         \* the requests suspended at an await: slot -> what the handler holds

vars == <<users, nextId, settingsDb, settingCache, now, tz, tokens, audit, resp,
          flagDb, flagCache, buckets, call, changedAt, pending>>

\* what the request handlers of this module leave alone
library == <<flagDb, flagCache, buckets, call, changedAt, pending>>

NULL == "NULL"      \* SQL NULL / JS null in a text column
NoTime == -1        \* SQL NULL in a DATETIME column (instants are >= 0)
NoId == -1          \* no user id (actor_id NULL, no req.user)

-----------------------------------------------------------------------------
(* Bounds of the model *)

MaxAudit == 1          \* rows the audit table takes before an insert fails
MaxTicks == 2          \* clock steps of a behaviour
MaxSessionVersion == 3 \* session_version values explored
MaxUsers == 3          \* rows the users table ever gets (ids 1..MaxUsers)
MaxTokens == 1         \* credentials the clients keep
MaxFailedLogins == 3   \* failed_login_attempts values explored

-----------------------------------------------------------------------------
(* Program constants *)

CACHE_TTL_MS == 5000
MinuteMs == 60 * 1000
HourMs == 60 * MinuteMs
TOKEN_EXPIRY == 24 * HourMs
DefaultMaxAttempts == 5
DefaultLockoutMinutes == 15

-----------------------------------------------------------------------------
(* security/permissions.js *)

Roles == {"SUPER_ADMIN", "ADMIN", "MODERATOR", "USER", "READ_ONLY"}

Permissions ==
    { "snippet.read.self", "snippet.write.self", "snippet.delete.self",
      "snippet.public.publish", "community.view.public", "admin.panel.access",
      "admin.users.read", "admin.users.write", "admin.snippets.moderate",
      "admin.system.settings.write", "admin.audit.read",
      "moderation.queue.read", "moderation.actions.write" }

\* mutation: SUPER_ADMIN's set is written out and misses the permission added last
rolePermissionsListed ==
    [ r \in Roles |->
        CASE r \in {"SUPER_ADMIN", "ADMIN"} -> Permissions \ {"moderation.actions.write"}
          [] r = "MODERATOR" -> {"snippet.read.self", "admin.panel.access",
                                 "moderation.actions.write"}
          [] OTHER -> {"snippet.read.self", "community.view.public"} ]

rolePermissions ==
    [ r \in Roles |->
        CASE r = "SUPER_ADMIN" -> Permissions
          [] r = "ADMIN" ->
               { "snippet.read.self", "snippet.write.self", "snippet.delete.self",
                 "snippet.public.publish", "community.view.public",
                 "admin.panel.access", "admin.users.read", "admin.users.write",
                 "admin.snippets.moderate", "admin.system.settings.write",
                 "admin.audit.read", "moderation.queue.read",
                 "moderation.actions.write" }
          [] r = "MODERATOR" ->
               { "snippet.read.self", "snippet.write.self", "snippet.delete.self",
                 "snippet.public.publish", "community.view.public",
                 "admin.panel.access", "admin.users.read",
                 "admin.snippets.moderate", "moderation.queue.read",
                 "moderation.actions.write", "admin.audit.read" }
          [] r = "USER" ->
               { "snippet.read.self", "snippet.write.self", "snippet.delete.self",
                 "snippet.public.publish", "community.view.public" }
          [] r = "READ_ONLY" ->
               { "snippet.read.self", "community.view.public" } ]

\* String(role).toUpperCase() on the role strings of the model
RoleUpper(role) ==
    CASE role = "super_admin" -> "SUPER_ADMIN"
      [] role = "admin" -> "ADMIN"
      [] role = "moderator" -> "MODERATOR"
      [] role = "user" -> "USER"
      [] role = "read_only" -> "READ_ONLY"
      [] role = "Admin" -> "ADMIN"
      [] role = "Moderator" -> "MODERATOR"
      [] role = "root" -> "ROOT"
      [] OTHER -> role

\* mutation: the upper-cased input is returned without looking it up
normalizeRoleUnchecked(role) ==
    IF role = NULL \/ role = "" THEN "USER" ELSE RoleUpper(role)

normalizeRole(role) ==
    IF role = NULL \/ role = ""
    THEN "USER"
    ELSE IF RoleUpper(role) \in DOMAIN rolePermissions
         THEN RoleUpper(role)
         ELSE "USER"

getPermissionsByRole(role) == rolePermissions[normalizeRole(role)]

hasPermission(role, permission) ==
    IF permission = NULL \/ permission = ""
    THEN FALSE
    ELSE permission \in getPermissionsByRole(role)

\* the permission names in the order Array.prototype.sort() gives them
PermissionOrder ==
    << "admin.audit.read", "admin.panel.access", "admin.snippets.moderate",
       "admin.system.settings.write", "admin.users.read", "admin.users.write",
       "community.view.public", "moderation.actions.write", "moderation.queue.read",
       "snippet.delete.self", "snippet.public.publish", "snippet.read.self",
       "snippet.write.self" >>

\* Array.from(getPermissionsByRole(role)).sort()
getRolePermissionList(role) ==
    LET held(permission) == permission \in getPermissionsByRole(role)
    IN SelectSeq(PermissionOrder, held)

-----------------------------------------------------------------------------
(* core/systemConfigRepository.js *)

SettingKeys ==
    { "registration.mode", "community.mode", "maintenance.mode",
      "security.lockout.max_attempts", "security.lockout.duration_minutes",
      "security.rate_limit.window_ms", "security.rate_limit.auth_max",
      "security.rate_limit.public_max", "security.rate_limit.general_max" }

\* the rows the schema seeds
SeedSettings ==
    [ k \in SettingKeys |->
        CASE k = "registration.mode" -> "OPEN"
          [] k = "community.mode" -> "OFF"
          [] k = "maintenance.mode" -> "OFF"
          [] k = "security.lockout.max_attempts" -> "5"
          [] k = "security.lockout.duration_minutes" -> "15"
          [] k = "security.rate_limit.window_ms" -> "60000"
          [] k = "security.rate_limit.auth_max" -> "20"
          [] k = "security.rate_limit.public_max" -> "120"
          [] k = "security.rate_limit.general_max" -> "300" ]

NoEntry == [value |-> NULL, cachedAt |-> NoTime]

\* mutation: an entry of exactly CACHE_TTL_MS still counts as fresh
isFreshInclusive(cacheEntry, t) ==
    IF cacheEntry.cachedAt = NoTime
    THEN FALSE
    ELSE t - cacheEntry.cachedAt <= CACHE_TTL_MS

isFresh(cacheEntry, t) ==
    IF cacheEntry.cachedAt = NoTime
    THEN FALSE
    ELSE t - cacheEntry.cachedAt < CACHE_TTL_MS

\* getSetting: the value it returns ...
getSetting(cache, db, key, fallbackValue, t) ==
    IF isFresh(cache[key], t)
    THEN cache[key].value
    ELSE IF db[key] # NULL THEN db[key] ELSE fallbackValue

\* ... and the cache it leaves
getSettingCache(cache, db, key, fallbackValue, t) ==
    IF isFresh(cache[key], t)
    THEN cache
    ELSE [cache EXCEPT ![key] =
            [value |-> IF db[key] # NULL THEN db[key] ELSE fallbackValue,
             cachedAt |-> t]]

\* the cache after a handler's getSetting calls, reads = <<key, fallback>> pairs in order
RECURSIVE CacheAfter(_, _, _, _)
CacheAfter(cache, db, reads, t) ==
    IF reads = << >>
    THEN cache
    ELSE CacheAfter(getSettingCache(cache, db, Head(reads)[1], Head(reads)[2], t),
                    db, Tail(reads), t)

NaN == -999999

\* Number(value) on the setting strings of the model
Number(value) ==
    CASE value = "" -> 0
      [] value = " " -> 0
      [] value = "0" -> 0
      [] value = "1" -> 1
      [] value = "2" -> 2
      [] value = "3" -> 3
      [] value = "4" -> 4
      [] value = "5" -> 5
      [] value = "15" -> 15
      [] value = "20" -> 20
      [] value = "30" -> 30
      [] value = "90" -> 90
      [] value = "120" -> 120
      [] value = "300" -> 300
      [] value = "1000" -> 1000
      [] value = "60000" -> 60000
      [] OTHER -> NaN

\* String(fallbackValue) on the fallbacks the code passes
NumString(n) ==
    CASE n = 5 -> "5"
      [] n = 15 -> "15"
      [] n = 20 -> "20"
      [] n = 120 -> "120"
      [] n = 300 -> "300"
      [] n = 60000 -> "60000"

getNumberSetting(cache, db, key, fallbackValue, t) ==
    LET parsed == Number(getSetting(cache, db, key, NumString(fallbackValue), t))
    IN IF parsed = NaN THEN fallbackValue ELSE parsed

\* the getSetting calls of getFoundationSettings, in order
FoundationReads ==
    << <<"registration.mode", "OPEN">>, <<"community.mode", "OFF">>,
       <<"maintenance.mode", "OFF">>,
       <<"security.lockout.max_attempts", "5">>,
       <<"security.lockout.duration_minutes", "15">>,
       <<"security.rate_limit.window_ms", "60000">>,
       <<"security.rate_limit.auth_max", "20">>,
       <<"security.rate_limit.public_max", "120">>,
       <<"security.rate_limit.general_max", "300">> >>

\* getFoundationSettings().security.lockout
getLockoutSettings(cache, db, t) ==
    [ maxAttempts |->
        getNumberSetting(cache, db, "security.lockout.max_attempts",
                         DefaultMaxAttempts, t),
      durationMinutes |->
        getNumberSetting(cache, db, "security.lockout.duration_minutes",
                         DefaultLockoutMinutes, t) ]

\* setSetting: the durable row, then the cache entry
setSettingDb(db, key, value) == [db EXCEPT ![key] = value]

\* mutation: the write leaves the cache entry as it was
setSettingCacheKept(cache, key, value, t) == cache

setSettingCache(cache, key, value, t) ==
    [cache EXCEPT ![key] = [value |-> value, cachedAt |-> t]]

\* feature flags: the same cache discipline over table feature_flags
FlagKeys == {"community.public_library", "community.reports", "platform.ai_hooks"}

NoFlag == -1

\* the rows the schema seeds
SeedFlags ==
    [ k \in FlagKeys |-> IF k = "community.public_library" THEN 1 ELSE 0 ]

NoFlagEntry == [value |-> FALSE, cachedAt |-> NoTime]

\* mutation: every read goes to the table
getFeatureFlagUncached(cache, db, key, fallbackValue, t) ==
    IF db[key] # NoFlag THEN db[key] # 0 ELSE fallbackValue

\* getFeatureFlag: the value it returns (!!row.enabled, or the fallback without a row) ...
getFeatureFlag(cache, db, key, fallbackValue, t) ==
    IF isFresh(cache[key], t)
    THEN cache[key].value
    ELSE IF db[key] # NoFlag THEN db[key] # 0 ELSE fallbackValue

\* ... and the cache it leaves
getFeatureFlagCache(cache, db, key, fallbackValue, t) ==
    IF isFresh(cache[key], t)
    THEN cache
    ELSE [cache EXCEPT ![key] =
            [value |-> IF db[key] # NoFlag THEN db[key] # 0 ELSE fallbackValue,
             cachedAt |-> t]]

\* setFeatureFlag: the durable row (enabled ? 1 : 0), then the cache entry (!!enabled)
setFeatureFlagDb(db, key, enabled) == [db EXCEPT ![key] = IF enabled THEN 1 ELSE 0]

setFeatureFlagCache(cache, key, enabled, t) ==
    [cache EXCEPT ![key] = [value |-> enabled, cachedAt |-> t]]

-----------------------------------------------------------------------------
(* repositories/userRepository.js *)

Statuses == {"PENDING", "ACTIVE", "SUSPENDED"}

\* bcrypt.hash / bcrypt.compare: a hash matches exactly the password it was made of
Hash(password) == <<"bcrypt", password>>

NoHash == << >>     \* password_hash '' of an OIDC account

\* createUserStmt / createUserWithOIDCStmt: the columns given, the rest by schema default
NewRow(username, passwordHash, oidcId, role, status) ==
    [ username |-> username,
      password_hash |-> passwordHash,
      oidc_id |-> oidcId,
      role |-> role,
      status |-> status,
      is_admin |-> 0,
      is_active |-> 1,
      failed_login_attempts |-> 0,
      locked_until |-> NoTime,
      force_password_reset |-> 0,
      session_version |-> 1,
      last_login_at |-> NoTime ]

\* findByUsername: the id of the row with that (lower-cased) name, or NoId
findByUsername(tbl, username) ==
    IF \E id \in DOMAIN tbl : tbl[id].username = username
    THEN CHOOSE id \in DOMAIN tbl : tbl[id].username = username
    ELSE NoId

findByOIDCId(tbl, sub) ==
    IF \E id \in DOMAIN tbl : tbl[id].oidc_id = sub
    THEN CHOOSE id \in DOMAIN tbl : tbl[id].oidc_id = sub
    ELSE NoId

\* SELECT COUNT(*) FROM users WHERE id != 0
userCount(tbl) == Cardinality({id \in DOMAIN tbl : id # 0})

verifyPassword(user, password) ==
    IF user.password_hash = NoHash
    THEN FALSE
    ELSE Hash(password) = user.password_hash

\* new Date(t).toISOString().replace("T", " ").replace("Z", ""): the UTC wall-clock
\* reading of the instant t, with the zone designator dropped
FormatUtcNoZone(t) == t

\* new Date(text).getTime() of a zone-less "YYYY-MM-DD HH:MM:SS.mmm": the text is read
\* as local time, so the instant is the reading minus the local offset
ParseLocal(reading, offset) == reading - offset

Max(a, b) == IF a >= b THEN a ELSE b

\* recordFailedLogin on the row the handler read: the two values it writes
recordFailedLogin(user, maxAttempts, lockoutMinutes, t) ==
    LET nextAttempts == user.failed_login_attempts + 1
    IN [ failed_login_attempts |-> nextAttempts,
         locked_until |->
            IF nextAttempts >= maxAttempts
            THEN FormatUtcNoZone(t + Max(1, lockoutMinutes) * 60 * 1000)
            ELSE NoTime ]

updateFailedLogin(tbl, id, written) ==
    IF id \in DOMAIN tbl
    THEN [tbl EXCEPT ![id].failed_login_attempts = written.failed_login_attempts,
                     ![id].locked_until = written.locked_until]
    ELSE tbl

updateLastLogin(tbl, id, t) ==
    IF id \in DOMAIN tbl
    THEN [tbl EXCEPT ![id].last_login_at = t,
                     ![id].failed_login_attempts = 0,
                     ![id].locked_until = NoTime]
    ELSE tbl

\* the UPDATEs guarded by "WHERE id = ? AND id != 0"
Updatable(tbl, id) == id \in DOMAIN tbl /\ id # 0

unlockUser(tbl, id) ==
    IF Updatable(tbl, id)
    THEN [tbl EXCEPT ![id].failed_login_attempts = 0,
                     ![id].locked_until = NoTime,
                     ![id].status = "ACTIVE"]
    ELSE tbl

updateStatus(tbl, id, status) ==
    IF Updatable(tbl, id)
    THEN [tbl EXCEPT ![id].status = status,
                     ![id].is_active = IF status = "SUSPENDED" THEN 0 ELSE 1]
    ELSE tbl

updateRole(tbl, id, role) ==
    IF Updatable(tbl, id)
    THEN [tbl EXCEPT ![id].role = role,
                     ![id].is_admin = IF role \in {"SUPER_ADMIN", "ADMIN"} THEN 1 ELSE 0]
    ELSE tbl

\* mutation: the statement writes session_version = 1 instead of session_version + 1
restartSessionVersion(tbl, id) ==
    IF Updatable(tbl, id) THEN [tbl EXCEPT ![id].session_version = 1] ELSE tbl

incrementSessionVersion(tbl, id) ==
    IF Updatable(tbl, id)
    THEN [tbl EXCEPT ![id].session_version = @ + 1]
    ELSE tbl

\* the flag written without the version step
setForcePasswordResetFlagOnly(tbl, id, flag) ==
    IF Updatable(tbl, id)
    THEN [tbl EXCEPT ![id].force_password_reset = IF flag THEN 1 ELSE 0]
    ELSE tbl

setForcePasswordReset(tbl, id, flag) ==
    IF Updatable(tbl, id)
    THEN [tbl EXCEPT ![id].force_password_reset = IF flag THEN 1 ELSE 0,
                     ![id].session_version = @ + 1]
    ELSE tbl

\* resetFailedLoginStmt: "WHERE id = ?"
resetFailedLoginAttempts(tbl, id) ==
    IF id \in DOMAIN tbl
    THEN [tbl EXCEPT ![id].failed_login_attempts = 0, ![id].locked_until = NoTime]
    ELSE tbl

\* createAnonymousUserStmt: id 0, password_hash '', role READ_ONLY, status ACTIVE
AnonymousRow == NewRow("anon-1", NoHash, NULL, "READ_ONLY", "ACTIVE")

updatePassword(tbl, id, newPassword) ==
    [tbl EXCEPT ![id].password_hash = Hash(newPassword)]

-----------------------------------------------------------------------------
(* routes/authRoutes.js helpers *)

isLocked(user, t, offset) ==
    IF user.locked_until = NoTime
    THEN FALSE
    ELSE ParseLocal(user.locked_until, offset) > t

\* mutation: the stored mode is ignored and registration is always OPEN
normalizeRegistrationModeOpen(mode) == "OPEN"

normalizeRegistrationMode(mode) ==
    IF mode \in {"OPEN", "APPROVAL", "CLOSED"}
    THEN mode
    ELSE IF mode \in {"open", "approval", "closed"}
         THEN CASE mode = "open" -> "OPEN"
                [] mode = "approval" -> "APPROVAL"
                [] mode = "closed" -> "CLOSED"
         ELSE "OPEN"

-----------------------------------------------------------------------------
(* middleware/auth.js *)

\* a request's credential: none, one jwt.verify cannot decode, or a signed payload
\* {id, role, sessionVersion, exp} (username and status of the payload are left out:
\* nothing reads them)
NoToken == [kind |-> "none", id |-> NoId, role |-> "", sessionVersion |-> 0, exp |-> 0]
MalformedToken ==
    [kind |-> "malformed", id |-> NoId, role |-> "", sessionVersion |-> 0, exp |-> 0]

createSessionToken(id, user, t) ==
    [ kind |-> "signed",
      id |-> id,
      role |-> IF user.role = "" THEN "USER" ELSE user.role,
      sessionVersion |-> IF user.session_version = 0 THEN 1 ELSE user.session_version,
      exp |-> t + TOKEN_EXPIRY ]

\* jwt.verify returns the payload (TRUE) or throws (FALSE)
jwtVerify(token, t) == token.kind = "signed" /\ t < token.exp

OrOne(v) == IF v = 0 THEN 1 ELSE v

\* mutation: authenticateToken without the session-version comparison
authenticateTokenAnyVersion(tbl, token, t) ==
    IF token.kind = "none"
    THEN [next |-> FALSE, status |-> 401, error |-> "Authentication required", id |-> NoId]
    ELSE IF ~jwtVerify(token, t)
    THEN [next |-> FALSE, status |-> 403, error |-> "Invalid token", id |-> NoId]
    ELSE IF token.id \notin DOMAIN tbl
    THEN [next |-> FALSE, status |-> 401, error |-> "User not found", id |-> NoId]
    ELSE IF tbl[token.id].status = "SUSPENDED" \/ tbl[token.id].is_active = 0
    THEN [next |-> FALSE, status |-> 403, error |-> "Account suspended", id |-> NoId]
    ELSE [next |-> TRUE, status |-> 200, error |-> "", id |-> token.id]

\* the outcome of authenticateToken: "next" with req.user = the row of id, or a response
authenticateToken(tbl, token, t) ==
    IF token.kind = "none"
    THEN [next |-> FALSE, status |-> 401, error |-> "Authentication required", id |-> NoId]
    ELSE IF ~jwtVerify(token, t)
    THEN [next |-> FALSE, status |-> 403, error |-> "Invalid token", id |-> NoId]
    ELSE IF token.id \notin DOMAIN tbl
    THEN [next |-> FALSE, status |-> 401, error |-> "User not found", id |-> NoId]
    ELSE IF tbl[token.id].status = "SUSPENDED" \/ tbl[token.id].is_active = 0
    THEN [next |-> FALSE, status |-> 403, error |-> "Account suspended", id |-> NoId]
    ELSE IF OrOne(token.sessionVersion) # OrOne(tbl[token.id].session_version)
    THEN [next |-> FALSE, status |-> 401, error |-> "Session expired", id |-> NoId]
    ELSE [next |-> TRUE, status |-> 200, error |-> "", id |-> token.id]

-----------------------------------------------------------------------------
(* security/aclMiddleware.js *)

\* requirePermission(permission) for a request whose req.user is the row of userId
requirePermission(tbl, userId, permission) ==
    IF userId = NoId
    THEN [next |-> FALSE, status |-> 401, error |-> "Authentication required"]
    ELSE IF ~hasPermission(normalizeRole(tbl[userId].role), permission)
    THEN [next |-> FALSE, status |-> 403, error |-> "Insufficient permissions"]
    ELSE [next |-> TRUE, status |-> 200, error |-> ""]

\* mutation: permissions.every in place of permissions.some
requireAllPermissions(tbl, userId, permissions) ==
    IF userId = NoId
    THEN [next |-> FALSE, status |-> 401, error |-> "Authentication required"]
    ELSE IF ~(\A permission \in permissions :
                 hasPermission(normalizeRole(tbl[userId].role), permission))
    THEN [next |-> FALSE, status |-> 403, error |-> "Insufficient permissions"]
    ELSE [next |-> TRUE, status |-> 200, error |-> ""]

\* requireAnyPermission(permissions): permissions.some(p => hasPermission(role, p))
requireAnyPermission(tbl, userId, permissions) ==
    IF userId = NoId
    THEN [next |-> FALSE, status |-> 401, error |-> "Authentication required"]
    ELSE IF ~(\E permission \in permissions :
                 hasPermission(normalizeRole(tbl[userId].role), permission))
    THEN [next |-> FALSE, status |-> 403, error |-> "Insufficient permissions"]
    ELSE [next |-> TRUE, status |-> 200, error |-> ""]

-----------------------------------------------------------------------------
(* security/rateLimiter.js *)

NoBucket == [count |-> 0, windowStart |-> NoTime, windowMs |-> 0]

\* Math.ceil(a / b) for b > 0
CeilDiv(a, b) == IF a % b = 0 THEN a \div b ELSE (a \div b) + 1

getScopeLimit(scope, rateConfig) ==
    CASE scope = "auth" -> rateConfig.authMax
      [] scope = "public" -> rateConfig.publicMax
      [] OTHER -> rateConfig.generalMax

\* getFoundationSettings().security.rateLimit
getRateLimitSettings(cache, db, t) ==
    [ windowMs |-> getNumberSetting(cache, db, "security.rate_limit.window_ms", 60000, t),
      authMax |-> getNumberSetting(cache, db, "security.rate_limit.auth_max", 20, t),
      publicMax |-> getNumberSetting(cache, db, "security.rate_limit.public_max", 120, t),
      generalMax |-> getNumberSetting(cache, db, "security.rate_limit.general_max", 300, t) ]

\* mutation: the request that reaches the limit is already rejected
rateLimiterOffByOne(existing, windowMs, limit, t) ==
    IF existing.windowStart = NoTime \/ t - existing.windowStart >= windowMs
    THEN [ bucket |-> [count |-> 1, windowStart |-> t, windowMs |-> windowMs],
           next |-> TRUE, status |-> 200, remaining |-> limit - 1, retryAfter |-> 0 ]
    ELSE IF existing.count + 1 >= limit
    THEN [ bucket |-> [existing EXCEPT !.count = existing.count + 1],
           next |-> FALSE, status |-> 429, remaining |-> 0,
           retryAfter |-> Max(1, CeilDiv(existing.windowStart + windowMs - t, 1000)) ]
    ELSE [ bucket |-> [existing EXCEPT !.count = existing.count + 1],
           next |-> TRUE, status |-> 200,
           remaining |-> Max(0, limit - existing.count - 1), retryAfter |-> 0 ]

\* mutation: Retry-After is rounded down
rateLimiterRetryFloor(existing, windowMs, limit, t) ==
    IF existing.windowStart = NoTime \/ t - existing.windowStart >= windowMs
    THEN [ bucket |-> [count |-> 1, windowStart |-> t, windowMs |-> windowMs],
           next |-> TRUE, status |-> 200, remaining |-> limit - 1, retryAfter |-> 0 ]
    ELSE IF existing.count + 1 > limit
    THEN [ bucket |-> [existing EXCEPT !.count = existing.count + 1],
           next |-> FALSE, status |-> 429, remaining |-> 0,
           retryAfter |-> Max(1, (existing.windowStart + windowMs - t) \div 1000) ]
    ELSE [ bucket |-> [existing EXCEPT !.count = existing.count + 1],
           next |-> TRUE, status |-> 200,
           remaining |-> Max(0, limit - existing.count - 1), retryAfter |-> 0 ]

\* the middleware createRateLimiter returns, on the bucket of key: the bucket it
\* leaves, and the response headers and status
rateLimiter(existing, windowMs, limit, t) ==
    IF existing.windowStart = NoTime \/ t - existing.windowStart >= windowMs
    THEN [ bucket |-> [count |-> 1, windowStart |-> t, windowMs |-> windowMs],
           next |-> TRUE, status |-> 200, remaining |-> limit - 1, retryAfter |-> 0 ]
    ELSE LET count == existing.count + 1
             remaining == Max(0, limit - count)
         IN IF count > limit
            THEN [ bucket |-> [existing EXCEPT !.count = count],
                   next |-> FALSE, status |-> 429, remaining |-> remaining,
                   retryAfter |->
                      Max(1, CeilDiv(existing.windowStart + windowMs - t, 1000)) ]
            ELSE [ bucket |-> [existing EXCEPT !.count = count],
                   next |-> TRUE, status |-> 200, remaining |-> remaining,
                   retryAfter |-> 0 ]

\* the cleanup loop's pass: buckets idle for more than twice their window are dropped
cleanup(bkts, t) ==
    [ k \in DOMAIN bkts |->
        IF bkts[k].windowStart # NoTime /\ t - bkts[k].windowStart > bkts[k].windowMs * 2
        THEN NoBucket
        ELSE bkts[k] ]

-----------------------------------------------------------------------------
(* security/auditLogRepository.js *)

AuditEntry(actorId, action, targetId) ==
    [actorId |-> actorId, action |-> action, targetId |-> targetId]

\* insertStmt.run succeeds while the table takes rows; a failed insert is caught
\* and logged, and log() returns normally either way
\* mutation: a failing insert pushes the oldest row out
logEvicting(rows, actorId, action, targetId) ==
    IF Len(rows) < MaxAudit
    THEN Append(rows, AuditEntry(actorId, action, targetId))
    ELSE Append(Tail(rows), AuditEntry(actorId, action, targetId))

\* mutation: the row is written without its actor
logUnattributed(rows, actorId, action, targetId) ==
    IF Len(rows) < MaxAudit
    THEN Append(rows, AuditEntry(NoId, action, targetId))
    ELSE rows

log(rows, actorId, action, targetId) ==
    IF Len(rows) < MaxAudit
    THEN Append(rows, AuditEntry(actorId, action, targetId))
    ELSE rows

-----------------------------------------------------------------------------
(* core/maintenanceMode.js.  A path is the sequence of its characters. *)

StartsWith(text, prefix) ==
    Len(prefix) <= Len(text) /\ SubSeq(text, 1, Len(prefix)) = prefix

Includes(text, part) ==
    \E i \in 1..(Len(text) - Len(part) + 1) : SubSeq(text, i, i + Len(part) - 1) = part

BASE_PATH == << >>      \* process.env.BASE_PATH || ""

BypassApiPrefixes ==
    { <<"/", "a", "p", "i", "/", "a", "u", "t", "h", "/", "c", "o", "n", "f", "i", "g">>,
      <<"/", "a", "p", "i", "/", "a", "u", "t", "h", "/", "l", "o", "g", "i", "n">>,
      <<"/", "a", "p", "i", "/", "a", "u", "t", "h", "/", "o", "i", "d", "c">> }

ApiPrefix == <<"/", "a", "p", "i">>
ApiDocs == <<"/", "a", "p", "i", "-", "d", "o", "c", "s">>

PathAuthConfig == <<"/", "a", "p", "i", "/", "a", "u", "t", "h", "/", "c", "o", "n", "f", "i", "g">>
PathLogin == <<"/", "a", "p", "i", "/", "a", "u", "t", "h", "/", "l", "o", "g", "i", "n">>
PathOidcCallback == <<"/", "a", "p", "i", "/", "a", "u", "t", "h", "/", "o", "i", "d", "c", "/", "c", "a", "l", "l", "b", "a", "c", "k">>
PathRegister == <<"/", "a", "p", "i", "/", "a", "u", "t", "h", "/", "r", "e", "g", "i", "s", "t", "e", "r">>
PathChangePassword == <<"/", "a", "p", "i", "/", "a", "u", "t", "h", "/", "c", "h", "a", "n", "g", "e", "-", "p", "a", "s", "s", "w", "o", "r", "d">>
PathAdminUsers == <<"/", "a", "p", "i", "/", "a", "d", "m", "i", "n", "/", "u", "s", "e", "r", "s">>
PathAdminSettings == <<"/", "a", "p", "i", "/", "a", "d", "m", "i", "n", "/", "s", "e", "t", "t", "i", "n", "g", "s">>
PathSnippets == <<"/", "a", "p", "i", "/", "s", "n", "i", "p", "p", "e", "t", "s">>
PathApiDocs == <<"/", "a", "p", "i", "-", "d", "o", "c", "s">>
PathSnippetApiDocs == <<"/", "a", "p", "i", "/", "s", "n", "i", "p", "p", "e", "t", "s", "/", "a", "p", "i", "-", "d", "o", "c", "s">>
PathIndex == <<"/", "i", "n", "d", "e", "x", ".", "h", "t", "m", "l">>

SettingUpper(value) ==
    CASE value = "on" -> "ON"
      [] value = "off" -> "OFF"
      [] value = "true" -> "TRUE"
      [] value = "enabled" -> "ENABLED"
      [] value = "open" -> "OPEN"
      [] value = "yes" -> "YES"
      [] value = "approval" -> "APPROVAL"
      [] value = "closed" -> "CLOSED"
      [] OTHER -> value

isMaintenanceEnabled(mode) == SettingUpper(mode) \in {"ON", "TRUE", "1", "ENABLED"}

hasBypassPath(basePath, requestPath) ==
    IF Includes(requestPath, ApiDocs)
    THEN TRUE
    ELSE \E prefix \in BypassApiPrefixes : StartsWith(requestPath, basePath \o prefix)

GateNext == [next |-> TRUE, status |-> 200, error |-> ""]
GateUnavailable == [next |-> FALSE, status |-> 503, error |-> "Maintenance mode is enabled"]

\* mutation: the gate trusts the role of the credential's payload
maintenanceModeGuardPayloadRole(enabled, path, token, tbl, t, storageFails) ==
    IF ~enabled
    THEN GateNext
    ELSE IF ~StartsWith(path, BASE_PATH \o ApiPrefix) /\ ~Includes(path, ApiDocs)
    THEN GateNext
    ELSE IF hasBypassPath(BASE_PATH, path)
    THEN GateNext
    ELSE IF token.kind = "none" \/ ~jwtVerify(token, t) \/ storageFails
    THEN GateUnavailable
    ELSE IF RoleUpper(token.role) = "SUPER_ADMIN" \/ RoleUpper(token.role) = "ADMIN"
         THEN GateNext
         ELSE GateUnavailable

\* mutation: a credential that does not verify is answered as authenticateToken does
maintenanceModeGuardLeaky(enabled, path, token, tbl, t, storageFails) ==
    IF ~enabled
    THEN GateNext
    ELSE IF ~StartsWith(path, BASE_PATH \o ApiPrefix) /\ ~Includes(path, ApiDocs)
    THEN GateNext
    ELSE IF hasBypassPath(BASE_PATH, path)
    THEN GateNext
    ELSE IF token.kind = "none"
    THEN GateUnavailable
    ELSE IF ~jwtVerify(token, t)
    THEN [next |-> FALSE, status |-> 403, error |-> "Invalid token"]
    ELSE IF storageFails
    THEN GateUnavailable
    ELSE LET role == RoleUpper(IF token.id \in DOMAIN tbl THEN tbl[token.id].role ELSE "")
         IN IF role = "SUPER_ADMIN" \/ role = "ADMIN"
            THEN GateNext
            ELSE GateUnavailable

\* maintenanceModeGuard; storageFails: userRepository.findById throws
maintenanceModeGuard(enabled, path, token, tbl, t, storageFails) ==
    IF ~enabled
    THEN GateNext
    ELSE IF ~StartsWith(path, BASE_PATH \o ApiPrefix) /\ ~Includes(path, ApiDocs)
    THEN GateNext
    ELSE IF hasBypassPath(BASE_PATH, path)
    THEN GateNext
    ELSE IF token.kind = "none"
    THEN GateUnavailable
    ELSE IF ~jwtVerify(token, t)
    THEN GateUnavailable
    ELSE IF storageFails
    THEN GateUnavailable
    ELSE LET role == RoleUpper(IF token.id \in DOMAIN tbl THEN tbl[token.id].role ELSE "")
         IN IF role = "SUPER_ADMIN" \/ role = "ADMIN"
            THEN GateNext
            ELSE GateUnavailable

-----------------------------------------------------------------------------
(* The request chain (app.js): maintenance check, identity resolution,       *)
(* permission check, handler.  Every request reads maintenance.mode.         *)

MaintenanceEnabled ==
    isMaintenanceEnabled(getSetting(settingCache, settingsDb, "maintenance.mode", "OFF", now))

GateCache == getSettingCache(settingCache, settingsDb, "maintenance.mode", "OFF", now)

\* the stage that answers a request, permission = "" for a route without a permission check
Pipeline(path, token, permission) ==
    LET g == maintenanceModeGuard(MaintenanceEnabled, path, token, users, now, FALSE)
        a == authenticateToken(users, token, now)
    IN IF ~g.next
       THEN [next |-> FALSE, by |-> "maintenance", status |-> g.status, error |-> g.error, id |-> NoId]
       ELSE IF ~a.next
       THEN [next |-> FALSE, by |-> "auth", status |-> a.status, error |-> a.error, id |-> NoId]
       ELSE IF permission # "" /\ ~requirePermission(users, a.id, permission).next
       THEN [next |-> FALSE, by |-> "acl",
             status |-> requirePermission(users, a.id, permission).status,
             error |-> requirePermission(users, a.id, permission).error, id |-> a.id]
       ELSE [next |-> TRUE, by |-> "handler", status |-> 200, error |-> "", id |-> a.id]

\* the request handled last: what was asked (route, cred, target, password, and for
\* Request its path and whether the user lookup fails) and the answer
BaseResp(route, cred, target, password) ==
    [ route |-> route, cred |-> cred, target |-> target, password |-> password,
      path |-> << >>, storageFails |-> FALSE,
      by |-> "handler", status |-> 200, error |-> "", actor |-> NoId,
      issued |-> NoToken, lockedUntil |-> NoTime, verified |-> FALSE ]

Answer(base, status, error) == [base EXCEPT !.status = status, !.error = error]

Stopped(base, p) ==
    [base EXCEPT !.by = p.by, !.status = p.status, !.error = p.error, !.actor = p.id]

\* the client keeps a credential it was issued while it has room for it
Keep(held, token) ==
    IF token \in held \/ Cardinality(held) < MaxTokens THEN held \cup {token} ELSE held

Credentials == tokens \cup {NoToken, MalformedToken}

\* a handler's effect on the tables it may write
Handled(tbl, cache, rows, held, r) ==
    /\ users' = tbl
    /\ settingCache' = cache
    /\ audit' = rows
    /\ tokens' = held
    /\ resp' = r
    /\ UNCHANGED <<nextId, settingsDb, now, tz, library>>

\* a chain stage answered before the handler ran
Refused(r) == Handled(users, GateCache, audit, tokens, r)

-----------------------------------------------------------------------------
(* routes/authRoutes.js *)

\* POST /api/auth/login
Login(username, password) ==
    LET base == BaseResp("login", NoToken, username, password)
        gone == maintenanceModeGuard(MaintenanceEnabled, PathLogin, NoToken, users, now, FALSE)
        id == findByUsername(users, username)
    IN IF ~gone.next
       THEN Refused([base EXCEPT !.by = "maintenance", !.status = gone.status,
                                 !.error = gone.error])
       ELSE IF id = NoId
       THEN Handled(users, GateCache, log(audit, NoId, "auth.login.failed", username),
                    tokens, Answer(base, 401, "Invalid credentials"))
       ELSE LET user == users[id]
                me == [base EXCEPT !.actor = id]
            IN IF isLocked(user, now, tz)
               THEN Handled(users, GateCache,
                            log(audit, id, "auth.login.blocked", ToString(id)), tokens,
                            [Answer(me, 423, "Account temporarily locked due to failed login attempts")
                               EXCEPT !.lockedUntil = user.locked_until])
               ELSE IF ~verifyPassword(user, password)
               THEN LET lockout == getLockoutSettings(GateCache, settingsDb, now)
                        written == recordFailedLogin(user, lockout.maxAttempts,
                                                     lockout.durationMinutes, now)
                    IN /\ user.failed_login_attempts < MaxFailedLogins
                       /\ Handled(updateFailedLogin(users, id, written),
                                  CacheAfter(GateCache, settingsDb, FoundationReads, now),
                                  log(audit, id, "auth.login.failed", ToString(id)), tokens,
                                  [Answer(me, 401, "Invalid credentials") EXCEPT !.verified = TRUE])
               ELSE IF user.status = "PENDING"
               THEN Handled(users, GateCache,
                            log(audit, id, "auth.login.blocked", ToString(id)), tokens,
                            [Answer(me, 403, "Account pending approval") EXCEPT !.verified = TRUE])
               ELSE IF user.status = "SUSPENDED" \/ user.is_active = 0
               THEN Handled(users, GateCache,
                            log(audit, id, "auth.login.blocked", ToString(id)), tokens,
                            [Answer(me, 403, "Account suspended") EXCEPT !.verified = TRUE])
               ELSE LET refreshed == updateLastLogin(users, id, now)
                        token == createSessionToken(id, refreshed[id], now)
                    IN Handled(refreshed, GateCache,
                               log(audit, id, "auth.login.success", ToString(id)),
                               Keep(tokens, token),
                               [me EXCEPT !.verified = TRUE, !.issued = token])

\* the getSetting calls of getAuthConfig, in order
AuthConfigReads ==
    << <<"registration.mode", "OPEN">>, <<"community.mode", "OFF">>,
       <<"maintenance.mode", "OFF">> >>

\* POST /api/auth/register
Register(username, password) ==
    LET base == BaseResp("register", NoToken, username, password)
        gone == maintenanceModeGuard(MaintenanceEnabled, PathRegister, NoToken, users, now, FALSE)
        hasUsers == userCount(users) > 0
        registrationMode ==
            normalizeRegistrationMode(getSetting(GateCache, settingsDb, "registration.mode", "OPEN", now))
        cache == CacheAfter(GateCache, settingsDb, AuthConfigReads, now)
        desiredRole == IF ~hasUsers THEN "SUPER_ADMIN" ELSE "USER"
        desiredStatus ==
            IF hasUsers /\ registrationMode = "APPROVAL" THEN "PENDING" ELSE "ACTIVE"
        user == NewRow(username, Hash(password), NULL, desiredRole, desiredStatus)
        token == createSessionToken(nextId, user, now)
    IN IF ~gone.next
       THEN /\ Refused([base EXCEPT !.by = "maintenance", !.status = gone.status,
                                    !.error = gone.error])
       ELSE IF hasUsers /\ registrationMode = "CLOSED"
       THEN /\ Handled(users, cache, audit, tokens,
                       Answer(base, 403, "New account registration is closed"))
       ELSE IF findByUsername(users, username) # NoId
       THEN /\ Handled(users, cache, audit, tokens,
                       Answer(base, 400, "Username already exists"))
       ELSE /\ nextId <= MaxUsers
            /\ users' = [id \in DOMAIN users \cup {nextId} |->
                            IF id = nextId THEN user ELSE users[id]]
            /\ nextId' = nextId + 1
            /\ settingCache' = cache
            /\ audit' = log(audit, nextId, "user.registration", ToString(nextId))
            /\ tokens' = IF desiredStatus = "PENDING" THEN tokens ELSE Keep(tokens, token)
            /\ resp' = IF desiredStatus = "PENDING"
                       THEN [Answer(base, 202, "pendingApproval") EXCEPT !.actor = nextId]
                       ELSE [base EXCEPT !.actor = nextId, !.issued = token]
            /\ UNCHANGED <<settingsDb, now, tz, library>>

\* POST /api/auth/change-password, behind authenticateToken
ChangePassword(token, currentPassword, newPassword) ==
    LET base == BaseResp("change-password", token, "self", currentPassword)
        p == Pipeline(PathChangePassword, token, "")
    IN IF ~p.next
       THEN Refused(Stopped(base, p))
       ELSE LET me == [base EXCEPT !.actor = p.id]
            IN IF users[p.id].oidc_id # NULL
               THEN Refused(Answer(me, 403,
                        "Password change not available for external authentication accounts"))
               ELSE IF ~verifyPassword(users[p.id], currentPassword)
               THEN Refused([Answer(me, 400, "Current password is incorrect")
                               EXCEPT !.verified = TRUE])
               ELSE /\ users[p.id].session_version < MaxSessionVersion
                    /\ Handled(setForcePasswordReset(
                                   updatePassword(users, p.id, newPassword), p.id, FALSE),
                               GateCache,
                               log(audit, p.id, "auth.password.changed", ToString(p.id)),
                               tokens, [me EXCEPT !.verified = TRUE])

-----------------------------------------------------------------------------
(* routes/oidcRoutes.js *)

\* GET /api/auth/oidc/callback for a sign-in the provider vouches for, subject sub
OidcCallback(sub) ==
    LET base == BaseResp("oidc.callback", NoToken, sub, "")
        hasUsers == userCount(users) > 0
        registrationMode ==
            normalizeRegistrationMode(getSetting(GateCache, settingsDb, "registration.mode", "OPEN", now))
        cache == getSettingCache(GateCache, settingsDb, "registration.mode", "OPEN", now)
        existing == findByOIDCId(users, sub)
        isNewUser == existing = NoId
        createdRole == IF ~hasUsers THEN "SUPER_ADMIN" ELSE "USER"
        createdStatus ==
            IF hasUsers /\ registrationMode = "APPROVAL" THEN "PENDING" ELSE "ACTIVE"
        id == IF isNewUser THEN nextId ELSE existing
        created == [i \in DOMAIN users \cup {id} |->
                       IF i \in DOMAIN users
                       THEN users[i]
                       ELSE NewRow(sub, NoHash, sub, createdRole, createdStatus)]
        user == created[id]
        me == [base EXCEPT !.actor = id, !.status = 302]
        refreshed == updateLastLogin(created, id, now)
        token == createSessionToken(id, refreshed[id], now)
        final(tbl, rows, held, r) ==
            /\ users' = tbl
            /\ nextId' = IF isNewUser THEN nextId + 1 ELSE nextId
            /\ settingCache' = cache
            /\ audit' = rows
            /\ tokens' = held
            /\ resp' = r
            /\ UNCHANGED <<settingsDb, now, tz, library>>
    IN IF hasUsers /\ isNewUser /\ registrationMode = "CLOSED"
       THEN Handled(users, cache, log(audit, NoId, "auth.oidc.registration.blocked", sub),
                    tokens, Answer(base, 302, "registration_disabled"))
       ELSE /\ isNewUser => nextId <= MaxUsers
            /\ IF isNewUser /\ createdStatus = "PENDING"
               THEN final(created, log(audit, id, "user.registration", ToString(id)), tokens,
                          [me EXCEPT !.error = "pending_approval"])
               ELSE IF user.status = "SUSPENDED" \/ user.is_active = 0
               THEN final(created, audit, tokens, [me EXCEPT !.error = "account_deactivated"])
               ELSE IF user.status = "PENDING"
               THEN final(created, audit, tokens, [me EXCEPT !.error = "pending_approval"])
               ELSE final(refreshed, log(audit, id, "auth.login.success", ToString(id)),
                          Keep(tokens, token), [me EXCEPT !.issued = token])

-----------------------------------------------------------------------------
(* repositories/adminRepository.js: the wrappers the admin routes call *)

adminDeleteUser(tbl, id) == [i \in DOMAIN tbl \ {id} |-> tbl[i]]

\* audit_logs.actor_id REFERENCES users (id) ON DELETE SET NULL
actorSetNull(rows, id) ==
    [i \in DOMAIN rows |->
        IF rows[i].actorId = id THEN [rows[i] EXCEPT !.actorId = NoId] ELSE rows[i]]

adminSetUserStatus(tbl, id, status) == updateStatus(tbl, id, status)

adminToggleUserActive(tbl, id) ==
    adminSetUserStatus(tbl, id, IF tbl[id].status = "SUSPENDED" THEN "ACTIVE" ELSE "SUSPENDED")

adminSetUserRole(tbl, id, role) == updateRole(tbl, id, role)

adminUnlockUser(tbl, id) == unlockUser(tbl, id)

adminResetUserSessions(tbl, id) == incrementSessionVersion(tbl, id)

adminSetForcePasswordReset(tbl, id, flag) == setForcePasswordReset(tbl, id, flag)

-----------------------------------------------------------------------------
(* routes/adminRoutes.js.  token: the caller's credential; userId: req.params.id *)

\* mutation: the guard never reports a self mutation
assertNotSelfMutationNever(actorId, userId) == ""

assertNotSelfMutation(actorId, userId) ==
    IF userId = actorId THEN "Cannot modify your own account in this action" ELSE ""

\* an admin route on an existing account: the chain, the self guard when the route
\* has one, then the repository call and the audit row
AdminRoute(route, action, token, userId, selfGuarded, after) ==
    LET base == BaseResp(route, token, ToString(userId), "")
        p == Pipeline(PathAdminUsers, token, "admin.users.write")
    IN IF ~p.next
       THEN Refused(Stopped(base, p))
       ELSE LET me == [base EXCEPT !.actor = p.id]
            IN IF selfGuarded /\ assertNotSelfMutation(p.id, userId) # ""
               THEN Refused(Answer(me, 400, assertNotSelfMutation(p.id, userId)))
               ELSE Handled(after, GateCache, log(audit, p.id, action, ToString(userId)),
                            tokens, me)

\* DELETE /users/:id
AdminDelete(token, userId) ==
    LET base == BaseResp("admin.user.delete", token, ToString(userId), "")
        p == Pipeline(PathAdminUsers, token, "admin.users.write")
    IN IF ~p.next
       THEN Refused(Stopped(base, p))
       ELSE LET me == [base EXCEPT !.actor = p.id]
            IN IF assertNotSelfMutation(p.id, userId) # ""
               THEN Refused(Answer(me, 400, assertNotSelfMutation(p.id, userId)))
               ELSE IF userId = 0
               THEN Refused(Answer(me, 400, "Cannot delete anonymous user"))
               ELSE IF userId \notin DOMAIN users
               THEN Refused(Answer(me, 404, "User not found"))
               ELSE Handled(adminDeleteUser(users, userId), GateCache,
                            log(actorSetNull(audit, userId), p.id, "admin.user.delete",
                                ToString(userId)),
                            tokens, me)

\* PATCH /users/:id/toggle-active
AdminToggleActive(token, userId) ==
    /\ userId \in DOMAIN users
    /\ AdminRoute("admin.user.toggle_active", "admin.user.toggle_active", token, userId,
                  TRUE, adminToggleUserActive(users, userId))

\* PATCH /users/:id/status
AdminSetStatus(token, userId, status) ==
    /\ userId \in DOMAIN users
    /\ status \in Statuses
    /\ AdminRoute("admin.user.status",
                  IF status = "ACTIVE" THEN "admin.user.approve" ELSE "admin.user.status_change",
                  token, userId, TRUE, adminSetUserStatus(users, userId, status))

\* PATCH /users/:id/role
AdminSetRole(token, userId, role) ==
    /\ userId \in DOMAIN users
    /\ role \in Roles
    /\ AdminRoute("admin.user.role", "admin.user.role_change", token, userId, TRUE,
                  adminSetUserRole(users, userId, role))

\* PATCH /users/:id/unlock
AdminUnlock(token, userId) ==
    /\ userId \in DOMAIN users
    /\ AdminRoute("admin.user.unlock", "admin.user.unlock", token, userId, FALSE,
                  adminUnlockUser(users, userId))

\* PATCH /users/:id/reset-sessions
AdminResetSessions(token, userId) ==
    /\ userId \in DOMAIN users
    /\ users[userId].session_version < MaxSessionVersion
    /\ AdminRoute("admin.user.reset_sessions", "admin.user.reset_sessions", token, userId,
                  TRUE, adminResetUserSessions(users, userId))

\* PATCH /users/:id/force-password-reset
AdminForcePasswordReset(token, userId, flag) ==
    /\ userId \in DOMAIN users
    /\ users[userId].session_version < MaxSessionVersion
    /\ AdminRoute("admin.user.force_password_reset", "admin.user.force_password_reset",
                  token, userId, FALSE, adminSetForcePasswordReset(users, userId, flag))

\* PATCH /settings with one field of the body set; a mode is upper-cased and validated,
\* a number is stored as String(value)
AdminUpdateSettings(token, key, value) ==
    LET base == BaseResp("admin.settings", token, key, "")
        p == Pipeline(PathAdminSettings, token, "admin.system.settings.write")
        normalized == SettingUpper(value)
        allowed ==
            CASE key = "registration.mode" -> {"OPEN", "APPROVAL", "CLOSED"}
              [] key = "community.mode" -> {"ON", "OFF"}
              [] key = "maintenance.mode" -> {"ON", "OFF"}
              [] OTHER -> {value}
        stored == IF key \in {"registration.mode", "community.mode", "maintenance.mode"}
                  THEN normalized ELSE value
    IN IF ~p.next
       THEN Refused(Stopped(base, p))
       ELSE IF stored \notin allowed
       THEN Refused([Answer(base, 400, "Invalid mode") EXCEPT !.actor = p.id])
       ELSE /\ settingsDb' = setSettingDb(settingsDb, key, stored)
            /\ settingCache' =
                  CacheAfter(setSettingCache(GateCache, key, stored, now), settingsDb',
                             FoundationReads, now)
            /\ audit' = log(audit, p.id, "admin.settings.update", "settings")
            /\ resp' = [base EXCEPT !.actor = p.id]
            /\ UNCHANGED <<users, nextId, tokens, now, tz, library>>

-----------------------------------------------------------------------------
(* Any other request, and the clock *)

\* a request to path carrying token; storageFails: the user lookup throws.  Paths
\* under /api other than the auth routes are behind authenticateToken
Request(path, token, storageFails) ==
    LET base == [BaseResp("request", token, "", "")
                   EXCEPT !.path = path, !.storageFails = storageFails]
        g == maintenanceModeGuard(MaintenanceEnabled, path, token, users, now, storageFails)
        a == authenticateToken(users, token, now)
        protected == StartsWith(path, BASE_PATH \o ApiPrefix)
                     /\ ~Includes(path, ApiDocs)
                     /\ ~StartsWith(path, <<"/", "a", "p", "i", "/", "a", "u", "t", "h", "/">>)
    IN Refused(
         IF ~g.next
         THEN [base EXCEPT !.by = "maintenance", !.status = g.status, !.error = g.error]
         ELSE IF protected /\ storageFails /\ token.kind # "none"
         THEN [base EXCEPT !.by = "auth", !.status = 403, !.error = "Invalid token"]
         ELSE IF protected /\ ~a.next
         THEN [base EXCEPT !.by = "auth", !.status = a.status, !.error = a.error]
         ELSE [base EXCEPT !.actor = IF protected THEN a.id ELSE NoId])

\* time passes
Tick(step) ==
    /\ now + step <= MaxTicks * step
    /\ now' = now + step
    /\ UNCHANGED <<users, nextId, settingsDb, settingCache, tz, tokens, audit, resp,
                   library>>

-----------------------------------------------------------------------------
(* Starting states.  A deployment starts from the seeded settings, possibly  *)
(* changed by an administrator, an empty cache, and the accounts registered  *)
(* so far; the server's time zone is a parameter of the deployment.          *)

TimeZones == {0 - HourMs, 0, HourMs}

NoRequest == BaseResp("none", NoToken, "", "")

EmptyCache == [k \in SettingKeys |-> NoEntry]

EmptyFlagCache == [k \in FlagKeys |-> NoFlagEntry]

\* the rate limiter's clients: `${scope}:${clientIp}`
BucketKeys == {<<"auth", "10.0.0.1">>, <<"general", "10.0.0.2">>}

NoBuckets == [k \in BucketKeys |-> NoBucket]

NoCall == [op |-> "none"]

\* the setting and the flag another process is seen to change
CfgSetting == "maintenance.mode"
CfgFlag == "community.reports"

\* the requests one client can have under way at once
Slots == {1, 2}

Idle == [pc |-> "idle"]

NoPending == [r \in Slots |-> Idle]

\* the flags as seeded, nothing cached, no bucket, no library call made, no request
\* under way
LibraryIdle ==
    /\ flagDb = SeedFlags
    /\ flagCache = EmptyFlagCache
    /\ buckets = NoBuckets
    /\ call = NoCall
    /\ changedAt = [k \in {CfgSetting, CfgFlag} |-> NoTime]
    /\ pending = NoPending

\* the first account (id 1, SUPER_ADMIN) and a second one (id 2) with the given role
\* and status, both with password "pw"
TwoAccounts(role, status) ==
    updateStatus(
        updateRole(
            [id \in {1, 2} |->
                IF id = 1
                THEN [NewRow("root", Hash("pw"), NULL, "SUPER_ADMIN", "ACTIVE")
                        EXCEPT !.is_admin = 1]
                ELSE NewRow("alice", Hash("pw"), NULL, "USER", "ACTIVE")],
            2, role),
        2, status)

\* the credential the first account got when it registered at time 0
RootToken == createSessionToken(1, TwoAccounts("USER", "ACTIVE")[1], 0)

LockStep == 40 * MinuteMs

InitLockout ==
    /\ \E status \in Statuses : users = TwoAccounts("USER", status)
    /\ nextId = 3
    /\ \E n \in {"1", "2"} :
          settingsDb = [SeedSettings EXCEPT !["security.lockout.max_attempts"] = n,
                                            !["security.lockout.duration_minutes"] = "30"]
    /\ settingCache = EmptyCache
    /\ now = 0
    /\ tz \in TimeZones
    /\ tokens = {RootToken}
    /\ audit = << >>
    /\ resp = NoRequest
    /\ LibraryIdle

NextLockout ==
    \/ \E username \in {"alice", "nobody"}, password \in {"pw", "bad"} :
          Login(username, password)
    \/ \E token \in Credentials : AdminUnlock(token, 2)
    \/ Tick(LockStep)

SpecLockout == InitLockout /\ [][NextLockout]_vars

-----------------------------------------------------------------------------
(* Properties of the login state machine, over SpecLockout                   *)

LoginPasswords == {"pw", "bad"}

\* the stored lockedUntil, the UTC reading recordFailedLogin wrote, is still in the future
LockPending(user, t) == user.locked_until # NoTime /\ t < user.locked_until

PasswordMatches(user, password) == user.password_hash = <<"bcrypt", password>>

ConfiguredMaxAttempts == Number(settingsDb["security.lockout.max_attempts"])

\* a login step that reset the lockout fields or stamped the last login
LoginReset(before, after) ==
    \/ after.last_login_at # before.last_login_at
    \/ after.failed_login_attempts = 0 /\ before.failed_login_attempts # 0
    \/ after.locked_until = NoTime /\ before.locked_until # NoTime

LockoutFieldsUnchanged(before, after) ==
    /\ after.failed_login_attempts = before.failed_login_attempts
    /\ after.locked_until = before.locked_until
    /\ after.last_login_at = before.last_login_at

\* C1: for every configured max_attempts N >= 1, the N-th sequential wrong-password
\* login on an ACTIVE account that started at failedLoginAttempts = 0 locks it; every
\* further login before lockedUntil, the correct password included, answers 423 with
\* a lockedUntil in the future; and on the unlocked account (failedLoginAttempts = 0,
\* lockedUntil = null) a login with the correct password answers 200 and leaves
\* failedLoginAttempts = 0 and lockedUntil = null.
C1_LockoutLifecycle ==
    [][ \A password \in LoginPasswords :
          Login("alice", password) =>
            /\ ( /\ users[2].status = "ACTIVE"
                 /\ ~PasswordMatches(users[2], password)
                 /\ users[2].locked_until = NoTime
                 /\ users[2].failed_login_attempts = ConfiguredMaxAttempts - 1 )
               => LockPending(users'[2], now)
            /\ ( users[2].status = "ACTIVE" /\ LockPending(users[2], now) )
               => ( resp'.status = 423 /\ resp'.lockedUntil > now )
            /\ ( /\ users[2].status = "ACTIVE" /\ users[2].is_active = 1
                 /\ users[2].failed_login_attempts = 0
                 /\ users[2].locked_until = NoTime
                 /\ PasswordMatches(users[2], password) )
               => ( /\ resp'.status = 200
                    /\ users'[2].failed_login_attempts = 0
                    /\ users'[2].locked_until = NoTime ) ]_vars

\* C5: login issues a credential and resets failedLoginAttempts, lockedUntil and the
\* last-login stamp only when the account exists, is not locked (its lockedUntil is not
\* in the future), the password matches and the status is ACTIVE; for a PENDING or
\* SUSPENDED account that is not locked, with the correct password, it answers 403,
\* issues no credential and leaves those three fields unchanged.
C5_LoginOnlyWhenEligible ==
    [][ \A username \in {"alice", "nobody"}, password \in LoginPasswords :
          Login(username, password) =>
            /\ ( \/ resp'.issued # NoToken
                 \/ 2 \in DOMAIN users /\ LoginReset(users[2], users'[2]) )
               => ( /\ username = "alice"
                    /\ ~LockPending(users[2], now)
                    /\ PasswordMatches(users[2], password)
                    /\ users[2].status = "ACTIVE" )
            /\ ( /\ username = "alice"
                 /\ users[2].status \in {"PENDING", "SUSPENDED"}
                 /\ ~LockPending(users[2], now)
                 /\ PasswordMatches(users[2], password) )
               => ( /\ resp'.status = 403
                    /\ resp'.issued = NoToken
                    /\ LockoutFieldsUnchanged(users[2], users'[2]) ) ]_vars

\* a PENDING account with a failed attempt on record was answered 403 on the correct password
C5_PendingRefused ==
    /\ resp.route = "login" /\ resp.target = "alice" /\ resp.password = "pw"
    /\ resp.status = 403 /\ resp.error = "Account pending approval"
    /\ users[2].status = "PENDING"
    /\ users[2].failed_login_attempts > 0

\* C6: a login attempt made while the account's lockedUntil is in the future answers
\* 423 carrying lockedUntil, never invokes password verification, and leaves
\* failedLoginAttempts, lockedUntil, status and sessionVersion unchanged, whatever
\* password was supplied.
C6_LockedLoginAsStated ==
    [][ \A password \in LoginPasswords :
          ( Login("alice", password) /\ LockPending(users[2], now) ) =>
            /\ resp'.status = 423
            /\ resp'.lockedUntil = users[2].locked_until
            /\ ~resp'.verified
            /\ users'[2].failed_login_attempts = users[2].failed_login_attempts
            /\ users'[2].locked_until = users[2].locked_until
            /\ users'[2].status = users[2].status
            /\ users'[2].session_version = users[2].session_version ]_vars

-----------------------------------------------------------------------------
(* Sessions: the credentials of the second account against the operations    *)
(* that touch session_version.  The first account registered at time 0, and  *)
(* the audit table holds the row of that registration.                       *)

SessionStep == 12 * HourMs

InitSession ==
    /\ users = TwoAccounts("USER", "ACTIVE")
    /\ nextId = 3
    /\ settingsDb = [SeedSettings EXCEPT !["security.lockout.max_attempts"] = "1"]
    /\ settingCache = EmptyCache
    /\ now = 0
    /\ tz = 0
    /\ tokens = {}
    /\ audit = <<AuditEntry(1, "user.registration", "1")>>
    /\ resp = NoRequest
    /\ LibraryIdle

NextSession ==
    \/ Login("alice", "pw")
    \/ \E token \in tokens : ChangePassword(token, "pw", "pw")
    \/ AdminResetSessions(RootToken, 2)
    \/ AdminForcePasswordReset(RootToken, 2, TRUE)
    \/ \E status \in {"ACTIVE", "SUSPENDED"} : AdminSetStatus(RootToken, 2, status)
    \/ AdminSetRole(RootToken, 2, "ADMIN")
    \/ AdminUnlock(RootToken, 2)
    \/ AdminDelete(RootToken, 2)
    \/ \E token \in tokens : Request(PathSnippets, token, FALSE)
    \/ Tick(SessionStep)

SpecSession == InitSession /\ [][NextSession]_vars

\* the same operations with failed logins and a registration, at one instant
NextVersions ==
    \/ \E password \in {"pw", "bad"} : Login("alice", password)
    \/ Register("bob", "pw")
    \/ \E token \in tokens : ChangePassword(token, "pw", "pw")
    \/ AdminResetSessions(RootToken, 2)
    \/ AdminForcePasswordReset(RootToken, 2, TRUE)
    \/ \E status \in {"ACTIVE", "SUSPENDED"} : AdminSetStatus(RootToken, 2, status)
    \/ AdminSetRole(RootToken, 2, "ADMIN")
    \/ AdminUnlock(RootToken, 2)

SpecVersions == InitSession /\ [][NextVersions]_vars

\* the signed credentials a client holds or was just handed
Presented == {t \in tokens \cup {resp.issued} : t.kind = "signed"}

\* C2 as stated: a credential minted while the user's sessionVersion was v is rejected
\* by authenticateToken with 401 in every state where the stored sessionVersion differs
\* from v, and a credential embedding the stored value is accepted, provided the user
\* exists and is not suspended (status not SUSPENDED, is_active not 0).
C2_AsStated ==
    \A t \in Presented :
        ( /\ t.id \in DOMAIN users
          /\ users[t.id].status # "SUSPENDED" /\ users[t.id].is_active # 0 ) =>
            IF t.sessionVersion # users[t.id].session_version
            THEN /\ ~authenticateToken(users, t, now).next
                 /\ authenticateToken(users, t, now).status = 401
            ELSE authenticateToken(users, t, now).next

\* C2, amended: an unexpired credential minted while the user's sessionVersion was v is
\* rejected by authenticateToken with 401 in every state where the stored sessionVersion
\* differs from v, and an unexpired credential embedding the stored value is accepted,
\* provided the user exists and is not suspended (status not SUSPENDED and is_active
\* not 0); an expired credential is answered 403 whatever version it embeds.
C2_UnexpiredCredential ==
    \A t \in Presented :
        /\ ( /\ t.id \in DOMAIN users
             /\ users[t.id].status # "SUSPENDED" /\ users[t.id].is_active # 0
             /\ now < t.exp ) =>
              IF t.sessionVersion # users[t.id].session_version
              THEN /\ ~authenticateToken(users, t, now).next
                   /\ authenticateToken(users, t, now).status = 401
              ELSE authenticateToken(users, t, now).next
        /\ now >= t.exp =>
              /\ ~authenticateToken(users, t, now).next
              /\ authenticateToken(users, t, now).status = 403

\* a client holds an unexpired credential of an older version while a login has just
\* been handed one of the stored version
C2_StaleAndFresh ==
    /\ 2 \in DOMAIN users /\ users[2].status = "ACTIVE" /\ users[2].is_active = 1
    /\ \E t \in tokens :
          t.id = 2 /\ now < t.exp /\ t.sessionVersion < users[2].session_version
    /\ resp.route = "login" /\ resp.issued.kind = "signed"
    /\ resp.issued.sessionVersion = users[2].session_version

\* C3: for every user sessionVersion is >= 1 and no operation (registration, login,
\* failed login, unlock, status change, role change, reset sessions, force password
\* reset, change-password) decreases it; so a credential whose version differs from
\* the stored one stays different and is not accepted after any further operation.
C3_SessionVersionMonotone ==
    /\ [](\A id \in DOMAIN users : users[id].session_version >= 1)
    /\ [][ \A id \in DOMAIN users :
              id \in DOMAIN users' =>
                 users'[id].session_version >= users[id].session_version ]_vars
    /\ [][ \A t \in Presented :
              ( t.id \in DOMAIN users
                /\ t.sessionVersion # users[t.id].session_version ) =>
                 /\ ~authenticateToken(users', t, now').next
                 /\ t.id \in DOMAIN users' =>
                       t.sessionVersion # users'[t.id].session_version ]_vars

\* after two increments a client still holds the credential of the first version and
\* the request it made with it was answered "Session expired"
C3_RejectedAfterIncrements ==
    /\ users[2].session_version >= 3
    /\ \E t \in tokens : t.id = 2 /\ t.sessionVersion = 1
    /\ resp.route = "change-password" /\ resp.by = "auth"
    /\ resp.status = 401 /\ resp.error = "Session expired"

-----------------------------------------------------------------------------
(* Registration: an installation without accounts, in any registration mode  *)

RegistrationModes == {"OPEN", "APPROVAL", "CLOSED"}

InitRegistration ==
    /\ users = << >>
    /\ nextId = 1
    /\ \E mode \in RegistrationModes :
          settingsDb = [SeedSettings EXCEPT !["registration.mode"] = mode]
    /\ settingCache = EmptyCache
    /\ now = 0
    /\ tz = 0
    /\ tokens = {}
    /\ audit = << >>
    /\ resp = NoRequest
    /\ LibraryIdle

NextRegistration ==
    \/ \E username \in {"alice", "bob"} : Register(username, "pw")
    \/ \E sub \in {"sub-a", "sub-b"} : OidcCallback(sub)
    \/ \E token \in tokens, mode \in RegistrationModes \cup {"approval", "bogus"} :
          AdminUpdateSettings(token, "registration.mode", mode)

SpecRegistration == InitRegistration /\ [][NextRegistration]_vars

NonAnonymous(tbl) == {id \in DOMAIN tbl : id # 0}

\* the step created one account, with that role and status
Created(role, status) ==
    /\ DOMAIN users' = DOMAIN users \cup {nextId}
    /\ nextId \notin DOMAIN users
    /\ \A id \in DOMAIN users : users'[id] = users[id]
    /\ users'[nextId].role = role
    /\ users'[nextId].status = status

\* what C4 promises of a registration step for the stored mode
RegistrationOutcome(refusedStatus, pendingStatus) ==
    IF NonAnonymous(users) = {}
    THEN Created("SUPER_ADMIN", "ACTIVE") /\ resp'.issued # NoToken
    ELSE CASE settingsDb["registration.mode"] = "OPEN" ->
                Created("USER", "ACTIVE") /\ resp'.issued # NoToken
           [] settingsDb["registration.mode"] = "APPROVAL" ->
                /\ Created("USER", "PENDING")
                /\ resp'.status = pendingStatus
                /\ resp'.issued = NoToken
                /\ tokens' = tokens
           [] settingsDb["registration.mode"] = "CLOSED" ->
                /\ users' = users
                /\ resp'.status = refusedStatus
                /\ resp'.issued = NoToken

-----------------------------------------------------------------------------
(* Administration: two administrators, each acting on itself and on the      *)
(* second account                                                            *)

\* the credential the second account got when it logged in at time 0
AliceToken == createSessionToken(2, TwoAccounts("ADMIN", "ACTIVE")[2], 0)

InitAdmin ==
    /\ users = TwoAccounts("ADMIN", "ACTIVE")
    /\ nextId = 3
    /\ settingsDb = SeedSettings
    /\ settingCache = EmptyCache
    /\ now = 0
    /\ tz = 0
    /\ tokens = {RootToken, AliceToken}
    /\ audit = << >>
    /\ resp = NoRequest
    /\ LibraryIdle

Admins == {RootToken, AliceToken}

NextAdmin ==
    \/ \E token \in Admins, userId \in {1, 2} :
          userId \in {token.id, 2} /\ AdminDelete(token, userId)
    \/ \E token \in Admins, userId \in {1, 2} :
          userId \in {token.id, 2} /\ AdminToggleActive(token, userId)
    \/ \E token \in Admins, userId \in {1, 2}, status \in {"ACTIVE", "SUSPENDED"} :
          userId \in {token.id, 2} /\ AdminSetStatus(token, userId, status)
    \/ \E token \in Admins, userId \in {1, 2}, role \in {"ADMIN", "USER"} :
          userId \in {token.id, 2} /\ AdminSetRole(token, userId, role)
    \/ \E token \in Admins, userId \in {1, 2} :
          userId \in {token.id, 2} /\ AdminResetSessions(token, userId)
    \/ \E token \in Admins, userId \in {1, 2} :
          userId \in {token.id, 2} /\ AdminUnlock(token, userId)
    \/ \E token \in Admins, userId \in {1, 2} :
          userId \in {token.id, 2} /\ AdminForcePasswordReset(token, userId, TRUE)

SpecAdmin == InitAdmin /\ [][NextAdmin]_vars

\* the bearer of token is an administrator the chain lets through to the user routes
ActingAdmin(token) ==
    /\ token.kind = "signed" /\ now < token.exp
    /\ token.id \in DOMAIN users
    /\ users[token.id].status # "SUSPENDED" /\ users[token.id].is_active # 0
    /\ users[token.id].session_version = token.sessionVersion
    /\ users[token.id].role \in {"SUPER_ADMIN", "ADMIN"}

SelfRefused ==
    /\ resp'.status = 400
    /\ resp'.error = "Cannot modify your own account in this action"
    /\ users' = users
    /\ audit' = audit

\* C7: delete user, toggle-active, set status, set role and reset-sessions are refused
\* with 400 whenever the target user is the acting admin, and the refused request
\* changes no user field and appends no audit entry.
C7_SelfMutationRefused ==
    [][ \A token \in Admins :
          ( ActingAdmin(token) /\ resp'.cred = token ) =>
            /\ AdminDelete(token, token.id) => SelfRefused
            /\ AdminToggleActive(token, token.id) => SelfRefused
            /\ \A status \in Statuses :
                  AdminSetStatus(token, token.id, status) => SelfRefused
            /\ \A role \in Roles : AdminSetRole(token, token.id, role) => SelfRefused
            /\ AdminResetSessions(token, token.id) => SelfRefused ]_vars

\* an administrator's reset-sessions on its own id was answered 400 while the audit
\* table had room for a row
C7_SelfResetRefused ==
    /\ resp.route = "admin.user.reset_sessions"
    /\ resp.status = 400
    /\ resp.actor = 2 /\ resp.target = "2"
    /\ users[2].session_version = 1
    /\ audit = << >>

-----------------------------------------------------------------------------
(* Maintenance: the gate against every kind of credential.  The account with *)
(* id 3 was deleted; its credential is still presented.                      *)

GateStep == 3 * 1000

UserToken == createSessionToken(2, TwoAccounts("USER", "ACTIVE")[2], 0)
GhostToken == [UserToken EXCEPT !.id = 3]
ExpiredToken == [RootToken EXCEPT !.exp = 0]

MaintenanceCredentials ==
    {NoToken, MalformedToken, ExpiredToken, GhostToken, UserToken, RootToken}

MaintenancePaths ==
    { PathAuthConfig, PathLogin, PathOidcCallback, PathApiDocs, PathSnippetApiDocs,
      PathRegister, PathSnippets, PathAdminSettings, PathIndex }

InitMaintenance ==
    /\ users = TwoAccounts("USER", "ACTIVE")
    /\ nextId = 4
    /\ \E mode \in {"ON", "OFF"} :
          settingsDb = [SeedSettings EXCEPT !["maintenance.mode"] = mode]
    /\ settingCache = EmptyCache
    /\ now = 0
    /\ tz = 0
    /\ tokens = {RootToken, UserToken}
    /\ audit = <<AuditEntry(1, "user.registration", "1")>>
    /\ resp = NoRequest
    /\ LibraryIdle

NextMaintenance ==
    \/ \E path \in MaintenancePaths, token \in MaintenanceCredentials,
          storageFails \in BOOLEAN : Request(path, token, storageFails)
    \/ \E token \in {RootToken, UserToken}, mode \in {"ON", "OFF", "on"} :
          AdminUpdateSettings(token, "maintenance.mode", mode)
    \/ \E role \in {"ADMIN", "MODERATOR", "USER"} : AdminSetRole(RootToken, 2, role)
    \/ Tick(GateStep)

SpecMaintenance == InitMaintenance /\ [][NextMaintenance]_vars

StoredMaintenanceOn == settingsDb["maintenance.mode"] \in {"ON", "TRUE", "1", "ENABLED"}

\* the allow-list: auth config, login, the OIDC routes, and paths naming /api-docs
AllowListed(path) ==
    path \in {PathAuthConfig, PathLogin, PathOidcCallback, PathApiDocs, PathSnippetApiDocs}

GatedPath(path) ==
    path \in {PathRegister, PathSnippets, PathAdminSettings, PathChangePassword, PathAdminUsers}

\* the credential verifies and its user's stored role is SUPER_ADMIN or ADMIN
Privileged(token, storageFails) ==
    /\ token.kind = "signed" /\ now < token.exp
    /\ ~storageFails
    /\ token.id \in DOMAIN users
    /\ users[token.id].role \in {"SUPER_ADMIN", "ADMIN"}

\* C8: while maintenance.mode is enabled, a request whose path starts with the API
\* prefix and is not on the allow-list reaches the next handler only if it bears a
\* credential that verifies and whose user's stored role is SUPER_ADMIN or ADMIN, and
\* every other such request is answered 503 'Maintenance mode is enabled'; when
\* maintenance.mode is not enabled every request passes the gate.
C8_MaintenanceGate ==
    [][ ( resp'.route = "request"
          /\ Request(resp'.path, resp'.cred, resp'.storageFails) ) =>
            IF StoredMaintenanceOn /\ GatedPath(resp'.path)
            THEN IF Privileged(resp'.cred, resp'.storageFails)
                 THEN resp'.by # "maintenance"
                 ELSE /\ resp'.by = "maintenance"
                      /\ resp'.status = 503
                      /\ resp'.error = "Maintenance mode is enabled"
            ELSE resp'.by # "maintenance" ]_vars

\* with maintenance on, the credential minted for a USER passed the gate on a gated
\* path once the account's stored role was ADMIN
C8_PromotedPasses ==
    /\ StoredMaintenanceOn
    /\ resp.route = "request" /\ GatedPath(resp.path) /\ ~resp.storageFails
    /\ resp.cred = UserToken /\ resp.cred.role = "USER"
    /\ users[2].role = "ADMIN"
    /\ resp.by # "maintenance"

\* the requests the gate does not treat as privileged: no credential, a malformed or
\* an expired one, one of an unknown user, one of a non-admin user, or a failing lookup
Unprivileged ==
    { c \in MaintenanceCredentials \X BOOLEAN : ~Privileged(c[1], c[2]) }

\* C9: while maintenance mode is enabled, the gate's response to a non-allow-listed
\* API request is the same 503 with the same body for a missing credential, a malformed
\* or expired credential, a credential of an unknown user, a credential of a non-admin
\* user, and a storage failure while resolving the user.
C9_GateAnswersAlike ==
    StoredMaintenanceOn =>
        \A path \in {p \in MaintenancePaths : GatedPath(p)} :
            LET missing == maintenanceModeGuard(MaintenanceEnabled, path, NoToken, users,
                                                now, FALSE)
            IN /\ <<NoToken, FALSE>> \in Unprivileged
               /\ missing.status = 503
               /\ \A c \in Unprivileged :
                     maintenanceModeGuard(MaintenanceEnabled, path, c[1], users, now, c[2])
                       = missing

\* with maintenance on, a request whose user lookup failed was answered 503 by the gate
C9_StorageFailureRefused ==
    /\ StoredMaintenanceOn
    /\ resp.route = "request" /\ resp.storageFails /\ GatedPath(resp.path)
    /\ resp.cred = RootToken
    /\ resp.by = "maintenance" /\ resp.status = 503
    /\ resp.error = "Maintenance mode is enabled"

-----------------------------------------------------------------------------
(* The administrators' way out of maintenance.  An ADMIN account with a      *)
(* password, maintenance on, one wrong password locks for 30 minutes, and    *)
(* the deployment's time zone is a parameter.                                 *)

InitEscape ==
    /\ users = TwoAccounts("ADMIN", "ACTIVE")
    /\ nextId = 3
    /\ settingsDb = [SeedSettings EXCEPT !["maintenance.mode"] = "ON",
                                         !["security.lockout.max_attempts"] = "1",
                                         !["security.lockout.duration_minutes"] = "30"]
    /\ settingCache = EmptyCache
    /\ now = 0
    /\ tz \in TimeZones
    /\ tokens = {}
    /\ audit = <<AuditEntry(1, "user.registration", "1")>>
    /\ resp = NoRequest
    /\ LibraryIdle

NextEscape ==
    \/ \E password \in LoginPasswords : Login("alice", password)
    \/ \E token \in tokens, mode \in {"ON", "OFF"} :
          AdminUpdateSettings(token, "maintenance.mode", mode)
    \/ \E path \in {PathSnippets, PathRegister}, token \in tokens \cup {NoToken} :
          Request(path, token, FALSE)
    \/ Tick(LockStep)

SpecEscape == InitEscape /\ [][NextEscape]_vars

\* an ACTIVE administrator account whose lock, if it ever had one, is over
UnlockedAdmin(user) ==
    /\ user.role \in {"SUPER_ADMIN", "ADMIN"}
    /\ user.status = "ACTIVE" /\ user.is_active # 0
    /\ ~LockPending(user, now)

\* C10: in every state with maintenance mode enabled and an ACTIVE, unlocked ADMIN or
\* SUPER_ADMIN account, that administrator can log in, and can update maintenance.mode
\* to OFF with the credential obtained, without either request being rejected by the
\* maintenance gate or the permission gate; from the completion of that update on the
\* gate rejects no request in that process.
C10_EscapeHatch ==
    [][ /\ ( /\ resp'.route = "login"
             /\ Login(resp'.target, resp'.password)
             /\ StoredMaintenanceOn
             /\ findByUsername(users, resp'.target) # NoId
             /\ UnlockedAdmin(users[findByUsername(users, resp'.target)])
             /\ PasswordMatches(users[findByUsername(users, resp'.target)], resp'.password) )
           => ( resp'.status = 200 /\ resp'.issued # NoToken )
        /\ ( /\ resp'.route = "admin.settings"
             /\ AdminUpdateSettings(resp'.cred, "maintenance.mode", "OFF")
             /\ StoredMaintenanceOn
             /\ Privileged(resp'.cred, FALSE)
             /\ UnlockedAdmin(users[resp'.cred.id])
             /\ resp'.cred.sessionVersion = users[resp'.cred.id].session_version )
           => ( /\ resp'.by = "handler" /\ resp'.status = 200
                /\ ~StoredMaintenanceOn' /\ ~MaintenanceEnabled' )
        /\ ( /\ resp'.route = "request"
             /\ Request(resp'.path, resp'.cred, resp'.storageFails)
             /\ ~StoredMaintenanceOn )
           => resp'.by # "maintenance" ]_vars

\* the administrator logged in during maintenance, switched it off, and a request
\* without a credential then passed the gate
C10_Escaped ==
    /\ ~StoredMaintenanceOn
    /\ \E i \in DOMAIN audit : audit[i].action = "user.registration"
    /\ tokens # {}
    /\ resp.route = "request" /\ resp.cred = NoToken /\ resp.by # "maintenance"

-----------------------------------------------------------------------------
(* The permission library called directly: roles, permissions and identities *)
(* drawn from the declared names, their case variants, and names that are    *)
(* not declared.                                                              *)

RoleInputs ==
    Roles \cup { "super_admin", "admin", "moderator", "user", "read_only",
                 "Admin", "Moderator", "root", "bogus", "", NULL }

PermissionInputs == Permissions \cup {"snippet.nope", "", NULL}

PermissionSets ==
    { {}, {"admin.users.write"}, {"admin.panel.access", "admin.users.write"},
      {"snippet.read.self", "snippet.nope"}, {"snippet.nope"},
      {"moderation.queue.read", "admin.system.settings.write"} }

\* req.user as authenticateToken attaches it, NoIdentity: no req.user
NoIdentity == [id |-> NoId, role |-> ""]

\* the row req.user was read from
IdentityTable(identity) == [id \in {1} |-> [role |-> identity.role]]

\* what a library call of this section leaves alone
handlerState == <<users, nextId, settingsDb, settingCache, now, tz, tokens, audit, resp,
                  pending>>

NormalizeRoleCall(role) ==
    /\ call' = [again |-> normalizeRole(normalizeRole(role)), op |-> "normalizeRole",
                out |-> normalizeRole(role), role |-> role]
    /\ UNCHANGED <<handlerState, flagDb, flagCache, buckets, changedAt>>

PermissionsOfCall(role) ==
    /\ call' = [again |-> getPermissionsByRole(role),
                all |-> getPermissionsByRole("SUPER_ADMIN"),
                list |-> getRolePermissionList(role),
                op |-> "permissionsOf", out |-> getPermissionsByRole(role),
                role |-> role]
    /\ UNCHANGED <<handlerState, flagDb, flagCache, buckets, changedAt>>

HasPermissionCall(role, permission) ==
    /\ call' = [asUser |-> hasPermission("USER", permission), op |-> "hasPermission",
                out |-> hasPermission(role, permission), permission |-> permission,
                role |-> role]
    /\ UNCHANGED <<handlerState, flagDb, flagCache, buckets, changedAt>>

\* present: authenticateToken attached req.user, read from a row with that role
RequirePermissionCall(present, role, permission) ==
    LET identity == IF present THEN [id |-> 1, role |-> role] ELSE NoIdentity
    IN /\ call' = [identity |-> identity, op |-> "requirePermission",
                   out |-> requirePermission(IdentityTable(identity), identity.id,
                                             permission),
                   permission |-> permission]
       /\ UNCHANGED <<handlerState, flagDb, flagCache, buckets, changedAt>>

RequireAnyPermissionCall(present, role, permissions) ==
    LET identity == IF present THEN [id |-> 1, role |-> role] ELSE NoIdentity
    IN /\ call' = [identity |-> identity, op |-> "requireAnyPermission",
                   out |-> requireAnyPermission(IdentityTable(identity), identity.id,
                                                permissions),
                   permissions |-> permissions]
       /\ UNCHANGED <<handlerState, flagDb, flagCache, buckets, changedAt>>

InitPermissions ==
    /\ users = TwoAccounts("USER", "ACTIVE")
    /\ nextId = 3
    /\ settingsDb = SeedSettings
    /\ settingCache = EmptyCache
    /\ now = 0
    /\ tz = 0
    /\ tokens = {}
    /\ audit = << >>
    /\ resp = NoRequest
    /\ LibraryIdle

NextPermissions ==
    \/ \E role \in RoleInputs : NormalizeRoleCall(role)
    \/ \E role \in RoleInputs : PermissionsOfCall(role)
    \/ \E role \in RoleInputs, permission \in PermissionInputs :
          HasPermissionCall(role, permission)
    \/ \E present \in BOOLEAN, role \in RoleInputs, permission \in PermissionInputs :
          RequirePermissionCall(present, role, permission)
    \/ \E present \in BOOLEAN, role \in RoleInputs, permissions \in PermissionSets :
          RequireAnyPermissionCall(present, role, permissions)

SpecPermissions == InitPermissions /\ [][NextPermissions]_vars

\* the role a name denotes when case is ignored, "" when it denotes none
RoleIgnoringCase(name) ==
    CASE name \in {"SUPER_ADMIN", "super_admin"} -> "SUPER_ADMIN"
      [] name \in {"ADMIN", "admin", "Admin"} -> "ADMIN"
      [] name \in {"MODERATOR", "moderator", "Moderator"} -> "MODERATOR"
      [] name \in {"USER", "user"} -> "USER"
      [] name \in {"READ_ONLY", "read_only"} -> "READ_ONLY"
      [] OTHER -> ""

\* the permissions the table gives the role an identity's role name denotes
Granted(identity) ==
    rolePermissions[IF RoleIgnoringCase(identity.role) = ""
                    THEN "USER" ELSE RoleIgnoringCase(identity.role)]

Outcome(next, status) == [next |-> next, status |-> status]

OutcomeOf(out) == [next |-> out.next, status |-> out.status]

\* C11: requirePermission(p) produces exactly one outcome per request: 401 when no
\* identity is attached, 403 when the identity's normalized role lacks p, and otherwise
\* the call of the next handler; requireAnyPermission(ps) passes exactly when the
\* normalized role holds at least one member of ps, so with an empty ps it rejects
\* every authenticated request with 403.
C11_PermissionGate ==
    /\ call.op = "requirePermission" =>
          OutcomeOf(call.out) =
             IF call.identity.id = NoId THEN Outcome(FALSE, 401)
             ELSE IF call.permission \notin Granted(call.identity)
             THEN Outcome(FALSE, 403)
             ELSE Outcome(TRUE, 200)
    /\ call.op = "requireAnyPermission" =>
          /\ OutcomeOf(call.out) =
                IF call.identity.id = NoId THEN Outcome(FALSE, 401)
                ELSE IF call.permissions \cap Granted(call.identity) = {}
                THEN Outcome(FALSE, 403)
                ELSE Outcome(TRUE, 200)
          /\ ( call.permissions = {} /\ call.identity.id # NoId )
                => OutcomeOf(call.out) = Outcome(FALSE, 403)

\* a SUPER_ADMIN identity was answered 403 by requireAnyPermission of no permission
C11_EmptySetRefused ==
    /\ call.op = "requireAnyPermission"
    /\ call.permissions = {}
    /\ call.identity.role = "SUPER_ADMIN"
    /\ call.out.status = 403 /\ ~call.out.next

C13_NormalizeRole ==
    /\ call.op = "normalizeRole" =>
          /\ call.out \in Roles
          /\ call.again = call.out
          /\ call.out # "USER" => RoleIgnoringCase(call.role) = call.out
          /\ RoleIgnoringCase(call.role) = "" => call.out = "USER"
    /\ ( call.op = "hasPermission" /\ RoleIgnoringCase(call.role) = "" ) =>
          call.out = call.asUser

\* an undeclared role name was normalized to USER
C13_UnknownIsUser ==
    /\ call.op = "normalizeRole" /\ call.role = "root"
    /\ call.out = "USER"

-----------------------------------------------------------------------------
(* The rate limiter: two clients on the auth and general limiters, the       *)
(* window and the limits as stored and left alone, and the cleanup timer.    *)

MaxBucketCount == 4

\* one request through createRateLimiter(scope) from clientIp: the settings read
\* through the cache, the bucket of `${scope}:${clientIp}` updated, headers and status
RateLimit(scope, clientIp) ==
    LET settings == getRateLimitSettings(settingCache, settingsDb, now)
        limit == getScopeLimit(scope, settings)
        key == <<scope, clientIp>>
        r == rateLimiter(buckets[key], settings.windowMs, limit, now)
    IN /\ buckets[key].count < MaxBucketCount
       /\ buckets' = [buckets EXCEPT ![key] = r.bucket]
       /\ settingCache' = CacheAfter(settingCache, settingsDb, FoundationReads, now)
       /\ call' = [before |-> buckets[key], key |-> key, limit |-> limit,
                   next |-> r.next, op |-> "rateLimit",
                   remaining |-> r.remaining, retryAfter |-> r.retryAfter,
                   status |-> r.status]
       /\ UNCHANGED <<users, nextId, settingsDb, now, tz, tokens, audit, resp,
                      flagDb, flagCache, changedAt, pending>>

\* the cleanup interval fires
Cleanup ==
    /\ buckets' = cleanup(buckets, now)
    /\ UNCHANGED <<handlerState, flagDb, flagCache, call, changedAt>>

InitRateLimit ==
    /\ users = TwoAccounts("USER", "ACTIVE")
    /\ nextId = 3
    /\ \E window \in {"1000", "60000"}, authMax \in {"1", "2"} :
          settingsDb = [SeedSettings EXCEPT !["security.rate_limit.window_ms"] = window,
                                            !["security.rate_limit.auth_max"] = authMax,
                                            !["security.rate_limit.general_max"] = "3"]
    /\ settingCache = EmptyCache
    /\ now = 0
    /\ tz = 0
    /\ tokens = {}
    /\ audit = << >>
    /\ resp = NoRequest
    /\ LibraryIdle

NextRateLimit ==
    \/ \E key \in BucketKeys : RateLimit(key[1], key[2])
    \/ Cleanup
    \/ Tick(500)
    \/ Tick(1500)

SpecRateLimit == InitRateLimit /\ [][NextRateLimit]_vars

\* W and L as stored
WindowLength == Number(settingsDb["security.rate_limit.window_ms"])

ScopeLimit(scope) ==
    Number(settingsDb[IF scope = "auth" THEN "security.rate_limit.auth_max"
                      ELSE "security.rate_limit.general_max"])

\* the client's window is running: requests so far in it, and its start
InWindow(key) ==
    buckets[key].windowStart # NoTime /\ now < buckets[key].windowStart + WindowLength

\* C14: with window length W and scope limit L >= 1 held constant, the first L requests
\* of one client in a window are permitted and carry remaining-quota L-1, L-2, ..., 0;
\* every further request before windowStart + W is rejected with 429 and
\* Retry-After >= 1; the first request at or after windowStart + W is permitted and
\* starts a fresh bucket with count 1.
C14_FixedWindow ==
    [][ ( call'.op = "rateLimit" /\ RateLimit(call'.key[1], call'.key[2]) ) =>
          LET key == call'.key
              L == ScopeLimit(key[1])
          IN IF InWindow(key)
             THEN /\ buckets'[key].windowStart = buckets[key].windowStart
                  /\ buckets'[key].count = buckets[key].count + 1
                  /\ IF buckets[key].count < L
                     THEN /\ call'.next /\ call'.status = 200
                          /\ call'.remaining = L - (buckets[key].count + 1)
                     ELSE /\ ~call'.next /\ call'.status = 429
                          /\ call'.retryAfter >= 1
             ELSE /\ call'.next /\ call'.status = 200
                  /\ call'.remaining = L - 1
                  /\ buckets'[key] = [count |-> 1, windowStart |-> now,
                                      windowMs |-> WindowLength] ]_vars

\* a client over its limit was answered 429 with Retry-After of a minute
C14_Rejected ==
    /\ call.op = "rateLimit" /\ call.status = 429 /\ ~call.next
    /\ call.retryAfter = 60 /\ call.remaining = 0
    /\ buckets[call.key].count > call.limit

-----------------------------------------------------------------------------
(* The configuration cache: one setting and one flag, read and written by    *)
(* this process and changed in the tables by another process.                *)

SettingValues == {"OFF", "ON"}
CacheStep == CACHE_TTL_MS \div 2

configState == <<users, nextId, now, tz, tokens, audit, resp, buckets, pending>>

\* getSetting(key, "OFF")
GetSettingCall(key) ==
    /\ call' = [at |-> now, dbRead |-> ~isFresh(settingCache[key], now), key |-> key,
                op |-> "getSetting", threw |-> FALSE,
                value |-> getSetting(settingCache, settingsDb, key, "OFF", now)]
    /\ settingCache' = getSettingCache(settingCache, settingsDb, key, "OFF", now)
    /\ UNCHANGED <<configState, settingsDb, flagDb, flagCache, changedAt>>

\* getFeatureFlag(key)
GetFeatureFlagCall(key) ==
    /\ call' = [at |-> now, dbRead |-> ~isFresh(flagCache[key], now), key |-> key,
                op |-> "getFeatureFlag", threw |-> FALSE,
                value |-> getFeatureFlag(flagCache, flagDb, key, FALSE, now)]
    /\ flagCache' = getFeatureFlagCache(flagCache, flagDb, key, FALSE, now)
    /\ UNCHANGED <<configState, settingsDb, settingCache, flagDb, changedAt>>

\* setSetting(key, value); fails: upsertSetting.run throws
SetSettingCall(key, value, fails) ==
    /\ settingsDb' = IF fails THEN settingsDb ELSE setSettingDb(settingsDb, key, value)
    /\ settingCache' = IF fails THEN settingCache
                       ELSE setSettingCache(settingCache, key, value, now)
    /\ call' = [at |-> now, dbRead |-> FALSE, key |-> key, op |-> "setSetting",
                threw |-> fails, value |-> value]
    /\ UNCHANGED <<configState, flagDb, flagCache, changedAt>>

\* setFeatureFlag(key, enabled); fails: upsertFeatureFlag.run throws, the catch rethrows
SetFeatureFlagCall(key, enabled, fails) ==
    /\ flagDb' = IF fails THEN flagDb ELSE setFeatureFlagDb(flagDb, key, enabled)
    /\ flagCache' = IF fails THEN flagCache
                    ELSE setFeatureFlagCache(flagCache, key, enabled, now)
    /\ call' = [at |-> now, dbRead |-> FALSE, key |-> key, op |-> "setFeatureFlag",
                threw |-> fails, value |-> enabled]
    /\ UNCHANGED <<configState, settingsDb, settingCache, changedAt>>

\* another process updates the row of a setting
ExternalSettingChange(key, value) ==
    /\ settingsDb[key] # value
    /\ settingsDb' = [settingsDb EXCEPT ![key] = value]
    /\ changedAt' = [changedAt EXCEPT ![key] = now]
    /\ UNCHANGED <<configState, settingCache, flagDb, flagCache, call>>

\* another process updates the row of a flag
ExternalFlagChange(key, enabled) ==
    /\ flagDb[key] # enabled
    /\ flagDb' = [flagDb EXCEPT ![key] = enabled]
    /\ changedAt' = [changedAt EXCEPT ![key] = now]
    /\ UNCHANGED <<configState, settingsDb, settingCache, flagCache, call>>

InitConfig ==
    /\ users = TwoAccounts("USER", "ACTIVE")
    /\ nextId = 3
    /\ settingsDb = SeedSettings
    /\ settingCache = EmptyCache
    /\ now = 0
    /\ tz = 0
    /\ tokens = {}
    /\ audit = << >>
    /\ resp = NoRequest
    /\ LibraryIdle

NextConfig ==
    \/ GetSettingCall(CfgSetting)
    \/ GetFeatureFlagCall(CfgFlag)
    \/ \E value \in SettingValues, fails \in BOOLEAN : SetSettingCall(CfgSetting, value, fails)
    \/ \E enabled \in BOOLEAN, fails \in BOOLEAN : SetFeatureFlagCall(CfgFlag, enabled, fails)
    \/ \E value \in SettingValues : ExternalSettingChange(CfgSetting, value)
    \/ \E enabled \in {0, 1} : ExternalFlagChange(CfgFlag, enabled)
    \/ Tick(CacheStep)

SpecConfig == InitConfig /\ [][NextConfig]_vars

\* the cache entry is younger than the freshness window
Young(entry) == entry.cachedAt # NoTime /\ now - entry.cachedAt < CACHE_TTL_MS

\* the row was changed by another process, a freshness window or more ago
ChangeSettled(key) == changedAt[key] # NoTime /\ now >= changedAt[key] + CACHE_TTL_MS

\* C15: a settings or flag read at time T never touches durable storage while the
\* cache entry of the key is younger than 5000 ms, and otherwise returns the value
\* the durable store holds at T and re-caches it; hence after an external change of
\* the row at time t, every read at or after t + 5000 ms returns the new value.
C15_ReadThrough ==
    [][ /\ ( call'.op = "getSetting" /\ GetSettingCall(call'.key) ) =>
             LET k == call'.key
             IN /\ IF Young(settingCache[k])
                   THEN /\ ~call'.dbRead
                        /\ call'.value = settingCache[k].value
                        /\ settingCache' = settingCache
                   ELSE /\ call'.dbRead
                        /\ call'.value = settingsDb[k]
                        /\ settingCache'[k] = [value |-> settingsDb[k], cachedAt |-> now]
                /\ ChangeSettled(k) => call'.value = settingsDb[k]
        /\ ( call'.op = "getFeatureFlag" /\ GetFeatureFlagCall(call'.key) ) =>
             LET k == call'.key
             IN /\ IF Young(flagCache[k])
                   THEN /\ ~call'.dbRead
                        /\ call'.value = flagCache[k].value
                        /\ flagCache' = flagCache
                   ELSE /\ call'.dbRead
                        /\ call'.value = (flagDb[k] = 1)
                        /\ flagCache'[k] = [value |-> flagDb[k] = 1, cachedAt |-> now]
                /\ ChangeSettled(k) => call'.value = (flagDb[k] = 1) ]_vars

\* a read exactly one freshness window after another process's change went to the
\* table, returned the new value and cached it
C15_NewValueRead ==
    /\ call.op = "getSetting" /\ call.dbRead
    /\ changedAt[call.key] # NoTime /\ call.at = changedAt[call.key] + CACHE_TTL_MS
    /\ call.value = "ON" /\ settingsDb[call.key] = "ON"
    /\ settingCache[call.key] = [value |-> "ON", cachedAt |-> call.at]

\* C16: after setSetting(k, v) or setFeatureFlag(k, e) returns, the durable row holds
\* the new value and every read of k in the process returns it at once, whatever the
\* cache held before; when the durable write fails, the error propagates and neither
\* the row nor the cache entry changes.
C16_WriteVisible ==
    [][ /\ ( call'.op = "setSetting"
             /\ SetSettingCall(call'.key, call'.value, call'.threw) ) =>
             LET k == call'.key
             IN IF call'.threw
                THEN settingsDb' = settingsDb /\ settingCache' = settingCache
                ELSE /\ settingsDb'[k] = call'.value
                     /\ settingCache'[k].cachedAt # NoTime
                     /\ now' - settingCache'[k].cachedAt < CACHE_TTL_MS
                     /\ settingCache'[k].value = call'.value
        /\ ( call'.op = "setFeatureFlag"
             /\ SetFeatureFlagCall(call'.key, call'.value, call'.threw) ) =>
             LET k == call'.key
             IN IF call'.threw
                THEN flagDb' = flagDb /\ flagCache' = flagCache
                ELSE /\ flagDb'[k] = (IF call'.value THEN 1 ELSE 0)
                     /\ flagCache'[k].cachedAt # NoTime
                     /\ now' - flagCache'[k].cachedAt < CACHE_TTL_MS
                     /\ flagCache'[k].value = call'.value ]_vars

\* a write after another process's change left the row and a fresh cache entry at the
\* written value
C16_Written ==
    /\ call.op = "setSetting" /\ ~call.threw /\ call.value = "OFF" /\ call.at > 0
    /\ changedAt[call.key] # NoTime /\ changedAt[call.key] < call.at
    /\ settingsDb[call.key] = "OFF"
    /\ settingCache[call.key] = [value |-> "OFF", cachedAt |-> call.at]

\* C17: setting a flag to the value it already has leaves its enabled value unchanged,
\* and two reads of a flag within the freshness window of its cache entry return the
\* identical value even if another process changes the row between them.
C17_FlagIdempotent ==
    [][ /\ ( call'.op = "setFeatureFlag" /\ ~call'.threw
             /\ SetFeatureFlagCall(call'.key, call'.value, FALSE)
             /\ flagDb[call'.key] = (IF call'.value THEN 1 ELSE 0) ) =>
             flagDb'[call'.key] = flagDb[call'.key]
        /\ ( call.op = "getFeatureFlag" /\ call'.op = "getFeatureFlag"
             /\ call'.key = call.key /\ GetFeatureFlagCall(call'.key)
             /\ Young(flagCache[call.key]) ) =>
             call'.value = call.value ]_vars

\* the second of two reads returned the cached value although the row had changed
C17_SameWithinWindow ==
    /\ call.op = "getFeatureFlag" /\ ~call.dbRead
    /\ changedAt[call.key] # NoTime /\ call.at > changedAt[call.key]
    /\ call.value # (flagDb[call.key] = 1)

-----------------------------------------------------------------------------
(* The audit trail: a login, a registration, a password change, the admin    *)
(* routes on the second account and a settings update, on a table that takes *)
(* MaxAudit rows and fails every insert after that.                          *)

AliceUserToken == createSessionToken(2, TwoAccounts("USER", "ACTIVE")[2], 0)

InitAudit ==
    /\ users = TwoAccounts("USER", "ACTIVE")
    /\ nextId = 3
    /\ settingsDb = SeedSettings
    /\ settingCache = EmptyCache
    /\ now = 0
    /\ tz = 0
    /\ tokens = {RootToken, AliceUserToken}
    /\ audit = << >>
    /\ resp = NoRequest
    /\ LibraryIdle

NextAudit ==
    \/ Login("alice", "pw")
    \/ Register("bob", "pw")
    \/ \E status \in {"ACTIVE", "SUSPENDED"} : AdminSetStatus(RootToken, 2, status)
    \/ AdminDelete(RootToken, 2)
    \/ \E mode \in {"OPEN", "APPROVAL"} :
          AdminUpdateSettings(RootToken, "registration.mode", mode)

SpecAudit == InitAudit /\ [][NextAudit]_vars

\* the requests that change an account's status, role, session version or force-reset
\* flag, and the settings update
NextTrail ==
    \/ ChangePassword(AliceUserToken, "pw", "pw")
    \/ \E status \in {"ACTIVE", "SUSPENDED"} : AdminSetStatus(RootToken, 2, status)
    \/ \E role \in {"ADMIN", "USER"} : AdminSetRole(RootToken, 2, role)
    \/ AdminToggleActive(RootToken, 2)
    \/ AdminUnlock(RootToken, 2)
    \/ AdminResetSessions(RootToken, 2)
    \/ AdminForcePasswordReset(RootToken, 2, TRUE)
    \/ \E mode \in {"OPEN", "APPROVAL"} :
          AdminUpdateSettings(RootToken, "registration.mode", mode)

SpecTrail == InitAudit /\ [][NextTrail]_vars

\* insertStmt.run throws: the table takes no further row
InsertFails == Len(audit) >= MaxAudit

\* what the insert leaves of the table: one row more, or the table as it was
RowWritten == Len(audit') = Len(audit) + 1 /\ SubSeq(audit', 1, Len(audit)) = audit

OnlyRowMissing == IF InsertFails THEN audit' = audit ELSE RowWritten

\* account 2 may log in with its password
MayLogin(password) ==
    /\ 2 \in DOMAIN users
    /\ PasswordMatches(users[2], password)
    /\ users[2].status = "ACTIVE" /\ users[2].is_active = 1
    /\ ~LockPending(users[2], now)

\* C18: when the durable insert of an audit row fails, log() returns normally: the
\* triggering operation (login, registration, admin mutation, settings update) yields
\* the same response and the same state changes as when the insert succeeds, and only
\* the audit row is missing.
C18_AuditBestEffort ==
    [][ /\ ( resp'.route = "login" /\ Login(resp'.target, resp'.password)
             /\ MayLogin(resp'.password) ) =>
             /\ resp'.status = 200 /\ resp'.error = ""
             /\ resp'.issued = createSessionToken(2, users[2], now)
             /\ users' = [users EXCEPT ![2].last_login_at = now,
                                       ![2].failed_login_attempts = 0,
                                       ![2].locked_until = NoTime]
             /\ OnlyRowMissing
        /\ ( resp'.route = "register" /\ Register(resp'.target, resp'.password)
             /\ \A id \in DOMAIN users : users[id].username # resp'.target ) =>
             /\ resp'.status = (IF settingsDb["registration.mode"] = "APPROVAL"
                                THEN 202 ELSE 200)
             /\ resp'.actor = nextId
             /\ DOMAIN users' = DOMAIN users \cup {nextId}
             /\ users'[nextId].username = resp'.target
             /\ \A id \in DOMAIN users : users'[id] = users[id]
             /\ OnlyRowMissing
        /\ \A status \in {"ACTIVE", "SUSPENDED"} :
             ( resp'.route = "admin.user.status" /\ users'[2].status = status
               /\ AdminSetStatus(RootToken, 2, status) ) =>
                 /\ resp'.status = 200 /\ resp'.error = ""
                 /\ users' = [users EXCEPT ![2].status = status,
                                ![2].is_active = IF status = "SUSPENDED" THEN 0 ELSE 1]
                 /\ OnlyRowMissing
        /\ ( resp'.route = "admin.settings"
             /\ AdminUpdateSettings(RootToken, resp'.target,
                                    settingsDb'["registration.mode"]) ) =>
             /\ resp'.status = 200 /\ resp'.error = ""
             /\ settingsDb'["registration.mode"] \in {"OPEN", "APPROVAL"}
             /\ \A k \in SettingKeys \ {"registration.mode"} : settingsDb'[k] = settingsDb[k]
             /\ settingCache'["registration.mode"] =
                   [value |-> settingsDb'["registration.mode"], cachedAt |-> now]
             /\ OnlyRowMissing ]_vars

\* the table was full when an administrator suspended the account: the answer was 200,
\* the account is suspended, and the table holds only the earlier row
C18_SuspendedUnrecorded ==
    /\ resp.route = "admin.user.status" /\ resp.status = 200
    /\ 2 \in DOMAIN users /\ users[2].status = "SUSPENDED"
    /\ Len(audit) = MaxAudit
    /\ \A i \in 1..Len(audit) : audit[i].action = "auth.login.success"

\* C19: the audit log is append-only under every sequence of operations: once an entry
\* is appended, none of its fields (actorId included) ever changes and the entry is
\* never removed, also when the user it names as actor is later deleted by an admin.
C19_AppendOnly ==
    [][ /\ Len(audit') >= Len(audit)
        /\ \A i \in 1..Len(audit) : audit'[i] = audit[i] ]_vars

\* the row of a login whose actor was deleted afterwards: its actor is gone
C19_ActorErased ==
    /\ 2 \notin DOMAIN users
    /\ Len(audit) >= 1
    /\ audit[1].action = "auth.login.success" /\ audit[1].targetId = "2"
    /\ audit[1].actorId = NoId

\* the request changed the status, role, session version or force-reset flag of user id
SecurityChanged(id) ==
    /\ id \in DOMAIN users /\ id \in DOMAIN users'
    /\ \/ users'[id].status # users[id].status
       \/ users'[id].role # users[id].role
       \/ users'[id].session_version # users[id].session_version
       \/ users'[id].force_password_reset # users[id].force_password_reset

\* the dotted names of the events
EventNames(route) ==
    CASE route = "admin.user.status" -> {"admin.user.approve", "admin.user.status_change"}
      [] route = "admin.user.role" -> {"admin.user.role_change"}
      [] route = "admin.user.toggle_active" -> {"admin.user.toggle_active"}
      [] route = "admin.user.unlock" -> {"admin.user.unlock"}
      [] route = "admin.user.reset_sessions" -> {"admin.user.reset_sessions"}
      [] route = "admin.user.force_password_reset" -> {"admin.user.force_password_reset"}
      [] route = "change-password" -> {"auth.password.changed"}
      [] route = "admin.settings" -> {"admin.settings.update"}
      [] OTHER -> {}

\* exactly one row more, naming the event, the acting user and the target
OneEntry(target) ==
    /\ RowWritten
    /\ audit'[Len(audit')].action \in EventNames(resp'.route)
    /\ audit'[Len(audit')].actorId = resp'.actor
    /\ resp'.actor # NoId
    /\ audit'[Len(audit')].targetId = target

-----------------------------------------------------------------------------
(* The account-security mutators of the user repository, called on the       *)
(* anonymous identity (id 0) and on the second account, and the login route  *)
(* naming the anonymous identity.                                            *)

repoFrame == <<nextId, settingsDb, settingCache, now, tz, tokens, audit, resp,
               flagDb, flagCache, buckets, changedAt, pending>>

RepoIds == {0, 2}

\* the outcome the method reports: result.changes > 0
Called(op, id, arg, ok) == [arg |-> arg, id |-> id, ok |-> ok, op |-> op]

UpdateStatusCall(id, status) ==
    /\ users' = updateStatus(users, id, status)
    /\ call' = Called("updateStatus", id, status, Updatable(users, id))
    /\ UNCHANGED repoFrame

UpdateRoleCall(id, role) ==
    /\ users' = updateRole(users, id, role)
    /\ call' = Called("updateRole", id, role, Updatable(users, id))
    /\ UNCHANGED repoFrame

IncrementSessionVersionCall(id) ==
    /\ users[id].session_version < MaxSessionVersion
    /\ users' = incrementSessionVersion(users, id)
    /\ call' = Called("incrementSessionVersion", id, "", Updatable(users, id))
    /\ UNCHANGED repoFrame

SetForcePasswordResetCall(id, flag) ==
    /\ users[id].session_version < MaxSessionVersion
    /\ users' = setForcePasswordReset(users, id, flag)
    /\ call' = Called("setForcePasswordReset", id, IF flag THEN "true" ELSE "false",
                      Updatable(users, id))
    /\ UNCHANGED repoFrame

UnlockUserCall(id) ==
    /\ users' = unlockUser(users, id)
    /\ call' = Called("unlockUser", id, "", Updatable(users, id))
    /\ UNCHANGED repoFrame

\* recordFailedLogin(user, lockout settings) on the row just read
RecordFailedLoginCall(id) ==
    LET lockout == getLockoutSettings(settingCache, settingsDb, now)
    IN /\ users[id].failed_login_attempts < MaxFailedLogins
       /\ users' = updateFailedLogin(users, id,
                       recordFailedLogin(users[id], lockout.maxAttempts,
                                         lockout.durationMinutes, now))
       /\ call' = Called("recordFailedLogin", id, "", TRUE)
       /\ UNCHANGED repoFrame

ResetFailedLoginAttemptsCall(id) ==
    /\ users' = resetFailedLoginAttempts(users, id)
    /\ call' = Called("resetFailedLoginAttempts", id, "", TRUE)
    /\ UNCHANGED repoFrame

UpdateLastLoginCall(id) ==
    /\ users' = updateLastLogin(users, id, now)
    /\ call' = Called("updateLastLogin", id, "", TRUE)
    /\ UNCHANGED repoFrame

InitRepository ==
    /\ \E status \in Statuses :
          users = [id \in {0, 1, 2} |->
                      IF id = 0 THEN AnonymousRow
                      ELSE TwoAccounts("USER", status)[id]]
    /\ nextId = 3
    /\ settingsDb = [SeedSettings EXCEPT !["security.lockout.max_attempts"] = "2",
                                         !["security.lockout.duration_minutes"] = "30"]
    /\ settingCache = EmptyCache
    /\ now = 0
    /\ tz = 0
    /\ tokens = {AliceUserToken}
    /\ audit = << >>
    /\ resp = NoRequest
    /\ LibraryIdle

NextRepository ==
    \/ \E id \in RepoIds, status \in Statuses : UpdateStatusCall(id, status)
    \/ \E id \in RepoIds, role \in {"USER", "ADMIN"} : UpdateRoleCall(id, role)
    \/ \E id \in RepoIds : IncrementSessionVersionCall(id)
    \/ \E id \in RepoIds, flag \in BOOLEAN : SetForcePasswordResetCall(id, flag)
    \/ \E id \in RepoIds : UnlockUserCall(id)
    \/ RecordFailedLoginCall(2)
    \/ \E id \in RepoIds : ResetFailedLoginAttemptsCall(id)
    \/ UpdateLastLoginCall(2)
    \/ Login(AnonymousRow.username, "pw")

SpecRepository == InitRepository /\ [][NextRepository]_vars

\* the call made in this step: one of the four mutators on an existing account other
\* than the anonymous one
MutatorStep ==
    /\ Updatable(users, call'.id)
    /\ \/ call'.op = "incrementSessionVersion" /\ IncrementSessionVersionCall(call'.id)
       \/ call'.op = "updateRole" /\ UpdateRoleCall(call'.id, call'.arg)
       \/ call'.op = "updateStatus" /\ UpdateStatusCall(call'.id, call'.arg)
       \/ call'.op = "setForcePasswordReset"
          /\ SetForcePasswordResetCall(call'.id, call'.arg = "true")

\* C21: each of incrementSessionVersion, updateRole, updateStatus and
\* setForcePasswordReset applied to an existing non-anonymous user increases that
\* user's sessionVersion by exactly one, so a credential issued to the user before the
\* role or status change is rejected afterwards.
C21_MutatorsBumpVersion ==
    [][ ( call'.op \in {"incrementSessionVersion", "updateRole", "updateStatus",
                        "setForcePasswordReset"} /\ MutatorStep ) =>
          /\ users'[call'.id].session_version = users[call'.id].session_version + 1
          /\ \A token \in tokens :
                token.id = call'.id => ~authenticateToken(users', token, now).next ]_vars

\* the role of account 2 was changed and the credential issued to it before is still
\* accepted
C21_StaleRoleAccepted ==
    /\ call.op = "updateRole" /\ call.id = 2 /\ call.ok
    /\ users[2].role = "ADMIN" /\ users[2].session_version = 1
    /\ AliceUserToken.role = "USER"
    /\ authenticateToken(users, AliceUserToken, now).next

\* the security fields of the anonymous identity
AnonymousSecurity(tbl) ==
    <<tbl[0].failed_login_attempts, tbl[0].locked_until, tbl[0].session_version,
      tbl[0].status, tbl[0].role>>

\* C22: no operation changes failedLoginAttempts, lockedUntil, sessionVersion, status
\* or role of the anonymous identity (user id 0): unlock, updateStatus, updateRole,
\* incrementSessionVersion and setForcePasswordReset on id 0 change nothing and report
\* failure, and a login attempt naming the anonymous identity's username does not count
\* a failed attempt or set a lock on it.
C22_AnonymousUntouched ==
    [][ /\ 0 \in DOMAIN users'
        /\ AnonymousSecurity(users') = AnonymousSecurity(users)
        /\ ( call' # call /\ call'.id = 0
             /\ call'.op \in {"unlockUser", "updateStatus", "updateRole",
                              "incrementSessionVersion", "setForcePasswordReset"} ) =>
             ~call'.ok /\ users' = users ]_vars

\* login attempts naming the anonymous identity have locked it
C22_AnonymousLocked ==
    /\ resp.route = "login" /\ resp.target = AnonymousRow.username /\ resp.status = 401
    /\ users[0].failed_login_attempts = 2
    /\ users[0].locked_until # NoTime

\* the row with its lockout fields and last-login stamp blanked
BesidesLockout(row) ==
    [row EXCEPT !.failed_login_attempts = 0, !.locked_until = NoTime,
                !.last_login_at = NoTime]

\* C30: the lockout operations (recordFailedLogin, resetFailedLoginAttempts, the reset
\* at successful login, and unlock) change only failedLoginAttempts, lockedUntil and
\* the last-login stamp: none of them changes a user's status, role or sessionVersion,
\* so unlocking a PENDING or SUSPENDED account leaves it PENDING or SUSPENDED.
C30_LockoutFrame ==
    [][ ( call' # call
          /\ call'.op \in {"recordFailedLogin", "resetFailedLoginAttempts",
                           "updateLastLogin", "unlockUser"} ) =>
          /\ DOMAIN users' = DOMAIN users
          /\ \A id \in DOMAIN users :
                BesidesLockout(users'[id]) = BesidesLockout(users[id]) ]_vars

\* a suspended account was unlocked: its status reads ACTIVE while is_active is still 0
C30_UnlockActivated ==
    /\ call.op = "unlockUser" /\ call.id = 2 /\ call.ok
    /\ users[2].status = "ACTIVE" /\ users[2].is_active = 0

-----------------------------------------------------------------------------
(* PATCH /settings with a whole body: the three modes are checked before     *)
(* anything is written, every other field is stored as String(value).        *)

Undefined == "undefined"    \* a field the body does not carry

\* bodies with a registration mode, a community mode, a lockout threshold and
\* feature flags (pairs <<flagKey, enabled>>), well-formed or not
PatchBodies ==
    [ communityMode : {Undefined, "ON", "MAYBE"},
      featureFlags : {{}, {<<"community.reports", TRUE>>}},
      lockoutMaxAttempts : {Undefined, "3", "abc"},
      registrationMode : {Undefined, "closed", "INVITE"} ]

\* the setSetting calls of the handler, in order, for the fields that are set
PatchWrites(body) ==
    LET field(key, value) == IF value = Undefined THEN << >> ELSE << <<key, value>> >>
    IN field("registration.mode", SettingUpper(body.registrationMode))
       \o field("community.mode", SettingUpper(body.communityMode))
       \o field("security.lockout.max_attempts", body.lockoutMaxAttempts)

RECURSIVE SettingsAfter(_, _)
SettingsAfter(db, writes) ==
    IF writes = << >>
    THEN db
    ELSE SettingsAfter(setSettingDb(db, Head(writes)[1], Head(writes)[2]), Tail(writes))

RECURSIVE SettingCacheAfter(_, _, _)
SettingCacheAfter(cache, writes, t) ==
    IF writes = << >>
    THEN cache
    ELSE SettingCacheAfter(setSettingCache(cache, Head(writes)[1], Head(writes)[2], t),
                           Tail(writes), t)

\* the setFeatureFlag calls of the handler, one for each entry of featureFlags
RECURSIVE FlagsAfter(_, _)
FlagsAfter(db, flags) ==
    IF flags = {}
    THEN db
    ELSE LET entry == CHOOSE e \in flags : TRUE
         IN FlagsAfter(setFeatureFlagDb(db, entry[1], entry[2]), flags \ {entry})

RECURSIVE FlagCacheAfter(_, _, _)
FlagCacheAfter(cache, flags, t) ==
    IF flags = {}
    THEN cache
    ELSE LET entry == CHOOSE e \in flags : TRUE
         IN FlagCacheAfter(setFeatureFlagCache(cache, entry[1], entry[2], t),
                           flags \ {entry}, t)

PatchSettings(token, body) ==
    LET base == BaseResp("admin.settings.patch", token, "settings", "")
        p == Pipeline(PathAdminSettings, token, "admin.system.settings.write")
        normalizedRegistrationMode == SettingUpper(body.registrationMode)
        normalizedCommunityMode == SettingUpper(body.communityMode)
    IN IF ~p.next
       THEN Refused(Stopped(base, p)) /\ UNCHANGED <<flagDb, flagCache>>
       ELSE IF /\ body.registrationMode # Undefined
               /\ normalizedRegistrationMode \notin {"OPEN", "APPROVAL", "CLOSED"}
       THEN Refused([Answer(base, 400, "Invalid registration mode") EXCEPT !.actor = p.id])
       ELSE IF /\ body.communityMode # Undefined
               /\ normalizedCommunityMode \notin {"ON", "OFF"}
       THEN Refused([Answer(base, 400, "Invalid community mode") EXCEPT !.actor = p.id])
       ELSE /\ settingsDb' = SettingsAfter(settingsDb, PatchWrites(body))
            /\ settingCache' =
                  CacheAfter(SettingCacheAfter(GateCache, PatchWrites(body), now),
                             settingsDb', FoundationReads, now)
            /\ flagDb' = FlagsAfter(flagDb, body.featureFlags)
            /\ flagCache' = FlagCacheAfter(flagCache, body.featureFlags, now)
            /\ audit' = log(audit, p.id, "admin.settings.update", "settings")
            /\ resp' = [base EXCEPT !.actor = p.id]
            /\ UNCHANGED <<users, nextId, tokens, now, tz, buckets, call, changedAt,
                           pending>>

InitSettings ==
    /\ users = TwoAccounts("USER", "ACTIVE")
    /\ nextId = 3
    /\ \E mode \in {"OPEN", "APPROVAL"} :
          settingsDb = [SeedSettings EXCEPT !["registration.mode"] = mode]
    /\ settingCache = EmptyCache
    /\ now = 0
    /\ tz = 0
    /\ tokens = {RootToken, AliceUserToken}
    /\ audit = << >>
    /\ resp = NoRequest
    /\ LibraryIdle

NextSettings ==
    \/ \E body \in PatchBodies : PatchSettings(RootToken, body)
    \/ \E body \in PatchBodies : PatchSettings(AliceUserToken, body)
    \/ Tick(CacheStep)

SpecSettings == InitSettings /\ [][NextSettings]_vars

\* a value outside a mode's enumeration, or a lockout threshold that is no integer
Malformed(body) ==
    \/ body.registrationMode \notin {Undefined, "closed"}
    \/ body.communityMode \notin {Undefined, "ON"}
    \/ body.lockoutMaxAttempts \notin {Undefined, "3"}

\* C23: an administrator's settings update with a malformed value is rejected, and
\* a rejected update changes no setting, no feature flag and adds no audit entry
C23_MalformedRejected ==
    [][\A body \in PatchBodies :
          PatchSettings(RootToken, body) =>
             /\ Malformed(body) => resp'.status = 400
             /\ resp'.status = 400 =>
                   settingsDb' = settingsDb /\ flagDb' = flagDb /\ audit' = audit]_vars

\* an update answered 200 has stored a lockout threshold that is no integer
C23_NonIntegerStored ==
    /\ resp.route = "admin.settings.patch"
    /\ resp.status = 200
    /\ settingsDb["security.lockout.max_attempts"] = "abc"

-----------------------------------------------------------------------------
(* getNumberSetting over stored strings that are and are not numbers *)

NumberKey == "security.lockout.max_attempts"

NumberKeys == {NumberKey, "security.rate_limit.auth_max"}

\* the fallbacks getFoundationSettings passes
NumberFallback(key) == IF key = NumberKey THEN DefaultMaxAttempts ELSE 20

\* strings an administrator can store: decimal numbers, text, nothing, a blank
StoredNumbers == {"3", "15", "abc", "", " "}

\* the number a decimal numeral denotes, NaN for a string that is no numeral
Decimal(value) ==
    CASE value = "3" -> 3
      [] value = "5" -> 5
      [] value = "15" -> 15
      [] value = "20" -> 20
      [] OTHER -> NaN

\* getNumberSetting(key, fallbackValue)
GetNumberSettingCall(key, fallbackValue) ==
    /\ call' = [at |-> now, dbRead |-> ~isFresh(settingCache[key], now),
                fallback |-> fallbackValue, key |-> key,
                number |-> getNumberSetting(settingCache, settingsDb, key,
                                            fallbackValue, now),
                op |-> "getNumberSetting",
                stored |-> getSetting(settingCache, settingsDb, key,
                                      NumString(fallbackValue), now),
                threw |-> FALSE]
    /\ settingCache' = getSettingCache(settingCache, settingsDb, key,
                                       NumString(fallbackValue), now)
    /\ UNCHANGED <<configState, settingsDb, flagDb, flagCache, changedAt>>

NextNumbers ==
    \/ \E key \in NumberKeys : GetNumberSettingCall(key, NumberFallback(key))
    \/ \E key \in NumberKeys, value \in StoredNumbers : SetSettingCall(key, value, FALSE)
    \/ Tick(CacheStep)

SpecNumbers == InitConfig /\ [][NextNumbers]_vars

\* C24: getNumber returns the number a stored decimal numeral denotes and the
\* caller's fallback for every other stored string, the empty and the blank one
\* included; it does not throw and does not return NaN
C24_NumberOrFallback ==
    [][ (call' # call /\ call'.op = "getNumberSetting") =>
          /\ ~call'.threw
          /\ call'.number # NaN
          /\ call'.number = IF Decimal(call'.stored) # NaN
                            THEN Decimal(call'.stored)
                            ELSE call'.fallback ]_vars

\* the empty string was read as the number 0
C24_EmptyIsZero ==
    /\ call.op = "getNumberSetting"
    /\ call.stored = ""
    /\ call.number = 0

-----------------------------------------------------------------------------
(* community/communityModeMiddleware.js *)

isEnabledValue(value) == SettingUpper(value) \in {"ON", "TRUE", "1", "ENABLED"}

\* mutation: either the mode or the flag opens the library
isCommunityModeEnabledEither(cache, db, flags, flagRows, t) ==
    \/ isEnabledValue(getSetting(cache, db, "community.mode", "OFF", t))
    \/ getFeatureFlag(flags, flagRows, "community.public_library", TRUE, t)

isCommunityModeEnabled(cache, db, flags, flagRows, t) ==
    /\ isEnabledValue(getSetting(cache, db, "community.mode", "OFF", t))
    /\ getFeatureFlag(flags, flagRows, "community.public_library", TRUE, t)

\* a public-library request reaching requireCommunityMode; both values are read
\* through their caches.  call notes the request that was handled before this one
RequireCommunityMode ==
    LET base == BaseResp("public.library", NoToken, "", "")
    IN /\ resp' = IF isCommunityModeEnabled(settingCache, settingsDb, flagCache, flagDb, now)
                  THEN base
                  ELSE [Answer(base, 404, "Community mode is disabled")
                          EXCEPT !.by = "community"]
       /\ settingCache' = getSettingCache(settingCache, settingsDb, "community.mode",
                                          "OFF", now)
       /\ flagCache' = getFeatureFlagCache(flagCache, flagDb, "community.public_library",
                                           TRUE, now)
       /\ call' = [after |-> resp.route, afterStatus |-> resp.status, at |-> now,
                   op |-> "requireCommunityMode"]
       /\ UNCHANGED <<users, nextId, settingsDb, now, tz, tokens, audit, flagDb, buckets,
                      changedAt, pending>>

\* settings updates that set the community mode, the public-library flag, or both
CommunityBodies ==
    [ communityMode : {Undefined, "ON", "OFF"},
      featureFlags : {{}, {<<"community.public_library", FALSE>>},
                      {<<"community.public_library", TRUE>>}},
      lockoutMaxAttempts : {Undefined},
      registrationMode : {Undefined} ]

NextCommunity ==
    \/ \E body \in CommunityBodies : PatchSettings(RootToken, body)
    \/ RequireCommunityMode
    \/ Tick(CacheStep)

SpecCommunity == InitSettings /\ [][NextCommunity]_vars

LibraryOpen ==
    /\ isEnabledValue(settingsDb["community.mode"])
    /\ flagDb["community.public_library"] = 1

\* the request handled last was a settings update that left community.mode ON
JustSwitchedOn ==
    /\ resp.route = "admin.settings.patch"
    /\ resp.status = 200
    /\ settingsDb["community.mode"] = "ON"

\* C25: requireCommunityMode answers 404 exactly when community.mode is not enabled
\* or the flag community.public_library is off, and the public-library request that
\* directly follows a settings update leaving the mode ON passes while the flag is on
C25_CommunityGate ==
    [][ resp'.route = "public.library" =>
          /\ resp'.status = IF LibraryOpen THEN 200 ELSE 404
          /\ (JustSwitchedOn /\ flagDb["community.public_library"] = 1)
                => resp'.status = 200 ]_vars

\* C25 as stated: the request after the switch passes, whatever the flag
C25_AsStated ==
    [][ (resp'.route = "public.library" /\ JustSwitchedOn) => resp'.status = 200 ]_vars

\* a public-library request passed directly after the update that switched the mode on
C25_OpenedAtOnce ==
    /\ resp.route = "public.library"
    /\ resp.status = 200
    /\ call.op = "requireCommunityMode"
    /\ call.after = "admin.settings.patch"
    /\ call.afterStatus = 200
    /\ settingsDb["community.mode"] = "ON"

-----------------------------------------------------------------------------
(* security/hostValidation.js.  A header is the sequence of its characters,  *)
(* << >> for a header the request does not carry.                            *)

\* toLowerCase on the characters of the model
LowerChar(c) ==
    CASE c = "A" -> "a"
      [] c = "B" -> "b"
      [] c = "I" -> "i"
      [] c = "O" -> "o"
      [] OTHER -> c

toLowerCase(text) == [i \in 1..Len(text) |-> LowerChar(text[i])]

\* text.split(sep)[0]
SplitFirst(text, sep) ==
    IF \E i \in 1..Len(text) : text[i] = sep
    THEN SubSeq(text, 1, (CHOOSE i \in 1..Len(text) :
                             /\ text[i] = sep
                             /\ \A j \in 1..(i - 1) : text[j] # sep) - 1)
    ELSE text

RECURSIVE trim(_)
trim(text) ==
    IF text = << >>
    THEN text
    ELSE IF Head(text) = " "
    THEN trim(Tail(text))
    ELSE IF text[Len(text)] = " "
    THEN trim(SubSeq(text, 1, Len(text) - 1))
    ELSE text

validateHostHeader(allowedHosts, forwardedHost, hostHeader) ==
    LET rawHost == IF forwardedHost # << >> THEN forwardedHost ELSE hostHeader
        host == toLowerCase(SplitFirst(trim(SplitFirst(rawHost, ",")), ":"))
    IN IF allowedHosts = {}
       THEN [next |-> TRUE, status |-> 200, error |-> ""]
       ELSE IF rawHost = << >>
       THEN [next |-> FALSE, status |-> 400, error |-> "Missing host header"]
       ELSE IF host \notin allowedHosts
       THEN [next |-> FALSE, status |-> 400, error |-> "Invalid host"]
       ELSE [next |-> TRUE, status |-> 200, error |-> ""]

HostA == <<"a", ".", "i", "o">>
HostB == <<"b", ".", "i", "o">>
HostV6 == <<"[", ":", ":", "1", "]">>
Port == <<":", "8", "0">>

\* header values: absent, a name, upper case, with a port, a list, an IPv6 literal
Headers ==
    { << >>, HostA, HostB, <<"A", ".", "I", "O">>, HostA \o Port, HostB \o Port,
      HostA \o <<",", " ">> \o HostB, HostB \o <<" ", ",">> \o HostA,
      HostV6, HostV6 \o Port }

\* ALLOWED_HOSTS after the split, trim and lower-casing at load
AllowLists == { {}, {HostA}, {HostA, HostV6} }

ValidateHostHeaderCall(allowedHosts, forwardedHost, hostHeader) ==
    /\ call' = [allowed |-> allowedHosts, forwarded |-> forwardedHost,
                host |-> hostHeader, op |-> "validateHostHeader",
                result |-> validateHostHeader(allowedHosts, forwardedHost, hostHeader)]
    /\ UNCHANGED <<handlerState, flagDb, flagCache, buckets, changedAt>>

NextHost ==
    \E allowedHosts \in AllowLists, forwardedHost \in Headers, hostHeader \in Headers :
       ValidateHostHeaderCall(allowedHosts, forwardedHost, hostHeader)

SpecHost == InitConfig /\ [][NextHost]_vars

Digits == {"0", "1", "8"}

\* a host without its port: what precedes a final colon followed by digits only
WithoutPort(text) ==
    IF \E i \in 1..Len(text) :
          text[i] = ":" /\ \A j \in (i + 1)..Len(text) : text[j] \in Digits
    THEN SubSeq(text, 1, (CHOOSE i \in 1..Len(text) :
                             text[i] = ":" /\ \A j \in (i + 1)..Len(text) :
                                                  text[j] \in Digits) - 1)
    ELSE text

\* the host the request names: the forwarded-host header if present, else the host
\* header; its first comma-separated value, without the port, in lower case
NamedHost(forwardedHost, hostHeader) ==
    LET raw == IF forwardedHost # << >> THEN forwardedHost ELSE hostHeader
    IN toLowerCase(WithoutPort(trim(SplitFirst(raw, ","))))

\* C26: with an empty allow-list every request passes; with a configured one a
\* request passes exactly when the host it names is in the list, and is answered
\* 400 otherwise
C26_HostValidation ==
    call.op = "validateHostHeader" =>
       /\ call.result.next =
             ( \/ call.allowed = {}
               \/ NamedHost(call.forwarded, call.host) \in call.allowed )
       /\ ~call.result.next => call.result.status = 400

\* a request naming an allowed IPv6 literal with a port was answered 400
C26_LiteralRefused ==
    /\ call.op = "validateHostHeader"
    /\ call.allowed = {HostA, HostV6}
    /\ call.forwarded = << >>
    /\ call.host = HostV6 \o Port
    /\ call.result.status = 400

-----------------------------------------------------------------------------
(* POST /api/auth/login in two steps.  bcrypt.compare runs off the event     *)
(* loop, so other requests are handled between the lookup of the user row    *)
(* and the code after `await verifyPassword`, which works on the row as it   *)
(* was read.                                                                  *)

\* the handler gets as far as verifyPassword
ReachesVerify(username) ==
    /\ maintenanceModeGuard(MaintenanceEnabled, PathLogin, NoToken, users, now, FALSE).next
    /\ findByUsername(users, username) # NoId
    /\ ~isLocked(users[findByUsername(users, username)], now, tz)

\* up to `await userRepository.verifyPassword(user, password)`; a request answered
\* before that is handled in one step
LoginStart(r, username, password) ==
    /\ pending[r].pc # "verifying"
    /\ IF ReachesVerify(username)
       THEN /\ pending' = [pending EXCEPT ![r] =
                             [id |-> findByUsername(users, username),
                              password |-> password, pc |-> "verifying",
                              user |-> users[findByUsername(users, username)]]]
            /\ settingCache' = GateCache
            /\ UNCHANGED <<users, nextId, settingsDb, now, tz, tokens, audit, resp,
                           flagDb, flagCache, buckets, call, changedAt>>
       ELSE Login(username, password)

\* what slot r keeps of a request it has answered: the counter in the row the
\* handler held (read), the counter and the lock in the table before the handler's
\* write (before, lockBefore) and the counter it wrote (wrote, NoId: none)
Answered(r, status, wrote) ==
    [before |-> users[pending[r].id].failed_login_attempts,
     lockBefore |-> users[pending[r].id].locked_until,
     pc |-> "answered",
     read |-> pending[r].user.failed_login_attempts,
     status |-> status,
     wrote |-> wrote]

\* from the result of verifyPassword to the response
LoginFinish(r) ==
    /\ pending[r].pc = "verifying"
    /\ pending[r].id \in DOMAIN users
    /\ LET id == pending[r].id
           user == pending[r].user
           me == [BaseResp("login", NoToken, user.username, pending[r].password)
                    EXCEPT !.actor = id, !.verified = TRUE]
           lockout == getLockoutSettings(settingCache, settingsDb, now)
           written == recordFailedLogin(user, lockout.maxAttempts,
                                        lockout.durationMinutes, now)
           refreshed == updateLastLogin(users, id, now)
           token == createSessionToken(id, refreshed[id], now)
       IN IF ~verifyPassword(user, pending[r].password)
          THEN /\ user.failed_login_attempts < MaxFailedLogins
               /\ users' = updateFailedLogin(users, id, written)
               /\ settingCache' = CacheAfter(settingCache, settingsDb, FoundationReads, now)
               /\ audit' = log(audit, id, "auth.login.failed", ToString(id))
               /\ tokens' = tokens
               /\ resp' = Answer(me, 401, "Invalid credentials")
               /\ pending' = [pending EXCEPT ![r] =
                                 Answered(r, 401, written.failed_login_attempts)]
          ELSE IF user.status = "PENDING"
          THEN /\ audit' = log(audit, id, "auth.login.blocked", ToString(id))
               /\ resp' = Answer(me, 403, "Account pending approval")
               /\ pending' = [pending EXCEPT ![r] = Answered(r, 403, NoId)]
               /\ UNCHANGED <<users, settingCache, tokens>>
          ELSE IF user.status = "SUSPENDED" \/ user.is_active = 0
          THEN /\ audit' = log(audit, id, "auth.login.blocked", ToString(id))
               /\ resp' = Answer(me, 403, "Account suspended")
               /\ pending' = [pending EXCEPT ![r] = Answered(r, 403, NoId)]
               /\ UNCHANGED <<users, settingCache, tokens>>
          ELSE /\ users' = refreshed
               /\ audit' = log(audit, id, "auth.login.success", ToString(id))
               /\ tokens' = Keep(tokens, token)
               /\ resp' = [me EXCEPT !.issued = token]
               /\ pending' = [pending EXCEPT ![r] = Answered(r, 200, 0)]
               /\ UNCHANGED settingCache
    /\ UNCHANGED <<nextId, settingsDb, now, tz, flagDb, flagCache, buckets, call,
                   changedAt>>

InitOverlap ==
    /\ users = TwoAccounts("USER", "ACTIVE")
    /\ nextId = 3
    /\ settingsDb = [SeedSettings EXCEPT !["security.lockout.max_attempts"] = "2",
                                         !["security.lockout.duration_minutes"] = "30"]
    /\ settingCache = EmptyCache
    /\ now = 0
    /\ tz = 0
    /\ tokens = {RootToken}
    /\ audit = << >>
    /\ resp = NoRequest
    /\ LibraryIdle

NextOverlap ==
    \/ \E r \in Slots, password \in {"pw", "bad"} : LoginStart(r, "alice", password)
    \/ \E r \in Slots : LoginFinish(r)
    \/ AdminUnlock(RootToken, 2)
    \/ Tick(LockStep)

SpecOverlap == InitOverlap /\ [][NextOverlap]_vars

\* slot r answers a wrong-password attempt in this step
WrongPasswordAnswered(r) ==
    /\ pending[r].pc = "verifying"
    /\ pending'[r].pc = "answered"
    /\ pending'[r].status = 401

\* C27: every wrong-password attempt raises the account's failed_login_attempts by
\* exactly one, also when login requests for the account overlap at verifyPassword
C27_EveryAttemptCounted ==
    [][ \A r \in Slots :
          WrongPasswordAnswered(r) =>
             users'[pending[r].id].failed_login_attempts =
                users[pending[r].id].failed_login_attempts + 1 ]_vars

\* a wrong-password attempt was answered with the counter at 1 before and after
C27_AttemptLost ==
    \E r \in Slots :
       /\ pending[r].pc = "answered"
       /\ pending[r].status = 401
       /\ pending[r].before = 1
       /\ pending[r].wrote = 1
       /\ users[2].failed_login_attempts = 1

\* the lock is set, in the future, and the counter has reached the maximum
ActiveLockAtMax(row) ==
    /\ LockPending(row, now)
    /\ row.failed_login_attempts >=
          getLockoutSettings(settingCache, settingsDb, now).maxAttempts

\* this step answers a successful login or an administrator's unlock
ReleaseStep ==
    /\ resp'.status = 200
    /\ resp'.route \in {"login", "admin.user.unlock"}

\* C28: while an account's lock is active and its counter at the maximum, no step
\* other than a successful login or an administrator's unlock clears or shortens
\* the lock or lowers the counter
C28_LockHolds ==
    [][ \A id \in DOMAIN users :
          (ActiveLockAtMax(users[id]) /\ ~ReleaseStep) =>
             /\ users'[id].locked_until # NoTime
             /\ users'[id].locked_until >= users[id].locked_until
             /\ users'[id].failed_login_attempts >= users[id].failed_login_attempts ]_vars

\* a wrong-password attempt answered while the account was locked with the counter
\* at the maximum has cleared the lock and lowered the counter
C28_LockCleared ==
    \E r \in Slots :
       /\ pending[r].pc = "answered"
       /\ pending[r].status = 401
       /\ pending[r].before = 2
       /\ pending[r].lockBefore > now
       /\ pending[r].wrote = 1
       /\ users[2].locked_until = NoTime
       /\ users[2].failed_login_attempts = 1

-----------------------------------------------------------------------------
(* POST /api/auth/register in two steps.  The route counts the users and     *)
(* chooses role and status, then awaits createUser; userRepository.create    *)
(* awaits bcrypt.hash before it inserts the row with the role it was given.  *)

\* the route gets as far as createUser
ReachesCreate ==
    /\ maintenanceModeGuard(MaintenanceEnabled, PathRegister, NoToken, users, now, FALSE).next
    /\ ~ ( /\ userCount(users) > 0
           /\ normalizeRegistrationMode(
                 getSetting(GateCache, settingsDb, "registration.mode", "OPEN", now))
              = "CLOSED" )

\* up to `await bcrypt.hash(password, saltRounds)`
RegisterStart(r, username, password) ==
    LET hasUsers == userCount(users) > 0
        registrationMode ==
            normalizeRegistrationMode(getSetting(GateCache, settingsDb, "registration.mode", "OPEN", now))
    IN /\ pending[r].pc \notin {"verifying", "hashing"}
       /\ IF ReachesCreate
          THEN /\ pending' = [pending EXCEPT ![r] =
                                [hasUsers |-> hasUsers, password |-> password,
                                 pc |-> "hashing",
                                 role |-> IF ~hasUsers THEN "SUPER_ADMIN" ELSE "USER",
                                 status |-> IF hasUsers /\ registrationMode = "APPROVAL"
                                            THEN "PENDING" ELSE "ACTIVE",
                                 username |-> username]]
               /\ settingCache' = CacheAfter(GateCache, settingsDb, AuthConfigReads, now)
               /\ UNCHANGED <<users, nextId, settingsDb, now, tz, tokens, audit, resp,
                              flagDb, flagCache, buckets, call, changedAt>>
          ELSE Register(username, password)

\* createUserStmt.run with the role and status chosen before the await, then the
\* rest of the route; a taken username fails the insert and is answered 400
RegisterFinish(r) ==
    /\ pending[r].pc = "hashing"
    /\ LET held == pending[r]
           base == BaseResp("register", NoToken, held.username, held.password)
           user == NewRow(held.username, Hash(held.password), NULL, held.role, held.status)
           token == createSessionToken(nextId, user, now)
       IN IF findByUsername(users, held.username) # NoId
          THEN /\ resp' = Answer(base, 400, "Username already exists")
               /\ pending' = [pending EXCEPT ![r] =
                                 [created |-> NoId, pc |-> "answered", status |-> 400]]
               /\ UNCHANGED <<users, nextId, audit, tokens>>
          ELSE /\ nextId <= MaxUsers
               /\ users' = [id \in DOMAIN users \cup {nextId} |->
                               IF id = nextId THEN user ELSE users[id]]
               /\ nextId' = nextId + 1
               /\ audit' = log(audit, nextId, "user.registration", ToString(nextId))
               /\ tokens' = IF held.status = "PENDING" THEN tokens ELSE Keep(tokens, token)
               /\ resp' = IF held.status = "PENDING"
                          THEN [Answer(base, 202, "pendingApproval") EXCEPT !.actor = nextId]
                          ELSE [base EXCEPT !.actor = nextId, !.issued = token]
               /\ pending' = [pending EXCEPT ![r] =
                                 [created |-> nextId, pc |-> "answered",
                                  status |-> IF held.status = "PENDING" THEN 202 ELSE 200]]
    /\ UNCHANGED <<settingsDb, settingCache, now, tz, flagDb, flagCache, buckets, call,
                   changedAt>>

NextFirstRun ==
    \/ \E r \in Slots, username \in {"alice", "bob"} : RegisterStart(r, username, "pw")
    \/ \E r \in Slots : RegisterFinish(r)
    \/ OidcCallback("sub-a")
    \/ Tick(CacheStep)

SpecFirstRun == InitRegistration /\ [][NextFirstRun]_vars

\* C29: an account created while another non-anonymous user exists is never
\* created as SUPER_ADMIN, also when registrations overlap between the count of
\* the users and the insert; so at most one account gets the role by registering
C29_OneSuperAdmin ==
    [][ \A id \in DOMAIN users' \ DOMAIN users :
          userCount(users) > 0 => users'[id].role # "SUPER_ADMIN" ]_vars

\* two accounts hold SUPER_ADMIN, both through registration
C29_TwoSuperAdmins ==
    /\ 1 \in DOMAIN users
    /\ 2 \in DOMAIN users
    /\ users[1].role = "SUPER_ADMIN"
    /\ users[2].role = "SUPER_ADMIN"

-----------------------------------------------------------------------------
(* The rate limiter with a limit of 0 among the configured ones *)

InitQuota ==
    /\ users = TwoAccounts("USER", "ACTIVE")
    /\ nextId = 3
    /\ \E window \in {"1000", "60000"}, authMax \in {"0", "2"} :
          settingsDb = [SeedSettings EXCEPT !["security.rate_limit.window_ms"] = window,
                                            !["security.rate_limit.auth_max"] = authMax,
                                            !["security.rate_limit.general_max"] = "3"]
    /\ settingCache = EmptyCache
    /\ now = 0
    /\ tz = 0
    /\ tokens = {}
    /\ audit = << >>
    /\ resp = NoRequest
    /\ LibraryIdle

NextQuota ==
    \/ \E key \in BucketKeys : RateLimit(key[1], key[2])
    \/ Cleanup
    \/ Tick(500)
    \/ Tick(1500)

SpecQuota == InitQuota /\ [][NextQuota]_vars

\* C31: for every client and every configured limit L >= 0 each request is counted
\* once in the bucket of its window, and a request is permitted only while the
\* count, itself included, does not exceed L, so no window has more than L
\* permitted requests
C31_NeverOverLimit ==
    [][ ( call'.op = "rateLimit" /\ RateLimit(call'.key[1], call'.key[2]) ) =>
          LET key == call'.key
          IN /\ buckets'[key].count =
                   IF InWindow(key) THEN buckets[key].count + 1 ELSE 1
             /\ call'.next => buckets'[key].count <= ScopeLimit(key[1]) ]_vars

\* a request was permitted under a limit of 0
C31_PermittedAtZero ==
    /\ call.op = "rateLimit"
    /\ call.limit = 0
    /\ call.next
    /\ buckets[call.key].count = 1

\* C32: a rejected request leaves the bucket's windowStart as it was, the time
\* Retry-After seconds after the 429 is not before windowStart + windowMs, and with
\* the settings unchanged a request at or after windowStart + windowMs is permitted
C32_RetryAfterSuffices ==
    [][ ( call'.op = "rateLimit" /\ RateLimit(call'.key[1], call'.key[2]) ) =>
          LET key == call'.key
              windowEnd == buckets[key].windowStart + WindowLength
          IN /\ call'.status = 429 =>
                   /\ buckets'[key].windowStart = buckets[key].windowStart
                   /\ now + 1000 * call'.retryAfter >= windowEnd
             /\ (buckets[key].windowStart # NoTime /\ now >= windowEnd) =>
                   call'.next /\ call'.status = 200 ]_vars

\* a client that was over its limit is permitted once its window has ended
C32_PermittedAgain ==
    /\ call.op = "rateLimit"
    /\ call.next
    /\ call.before.count > call.limit
    /\ call.before.windowStart + WindowLength <= now
    /\ buckets[call.key].windowStart = now

-----------------------------------------------------------------------------
(* The cleanup timer against a window length that an administrator changes *)

WindowKey == "security.rate_limit.window_ms"

InitSweep ==
    /\ users = TwoAccounts("USER", "ACTIVE")
    /\ nextId = 3
    /\ settingsDb = [SeedSettings EXCEPT ![WindowKey] = "1000",
                                         !["security.rate_limit.auth_max"] = "1",
                                         !["security.rate_limit.general_max"] = "3"]
    /\ settingCache = EmptyCache
    /\ now = 0
    /\ tz = 0
    /\ tokens = {}
    /\ audit = << >>
    /\ resp = NoRequest
    /\ LibraryIdle

NextSweep ==
    \/ \E key \in BucketKeys : RateLimit(key[1], key[2])
    \/ Cleanup
    \/ \E window \in {"1000", "60000"} : SetSettingCall(WindowKey, window, FALSE)
    \/ Tick(500)
    \/ Tick(1500)

SpecSweep == InitSweep /\ [][NextSweep]_vars

\* the limiter's answer to a request of key now, from the bucket given
Decision(key, bucket) ==
    LET settings == getRateLimitSettings(settingCache, settingsDb, now)
    IN rateLimiter(bucket, settings.windowMs, getScopeLimit(key[1], settings), now)

\* C33: the sweep removes only buckets older than twice the window length stored
\* in them, and the limiter answers a request the same with the bucket removed as
\* with the bucket kept, also after the configured window length was changed
C33_SweepUnobservable ==
    [][ \A key \in BucketKeys :
          (buckets[key] # NoBucket /\ buckets'[key] = NoBucket) =>
             /\ now - buckets[key].windowStart > 2 * buckets[key].windowMs
             /\ Decision(key, buckets[key]) = Decision(key, NoBucket) ]_vars

\* the bucket of a client rejected in a window that is still running under the
\* configured length has been removed
C33_SweptInWindow ==
    /\ call.op = "rateLimit"
    /\ call.status = 429
    /\ buckets[call.key] = NoBucket
    /\ now - call.before.windowStart < WindowLength

-----------------------------------------------------------------------------
(* The lock as written and as read back *)

\* C34: a stored locked_until denotes the instant recordFailedLogin computed: the
\* login check reports the account locked at every time before that instant and
\* not locked from it on, whatever the server's time-zone offset
C34_LockReadBack ==
    \A id \in DOMAIN users :
       users[id].locked_until # NoTime =>
          (isLocked(users[id], now, tz) <=> now < users[id].locked_until)

\* on a server east of UTC an account whose lock has not run out is reported unlocked
C34_LockMisread ==
    /\ tz = HourMs
    /\ resp.route = "login"
    /\ resp.status = 401
    /\ users[2].locked_until = now + 30 * MinuteMs
    /\ ~isLocked(users[2], now, tz)

\* ---------------------------------------------------------------------------
\* The maintenance gate against credential verification
\* ---------------------------------------------------------------------------

\* alice is an administrator holding a credential; root suspends her, sets her
\* back, or resets her sessions while the maintenance mode is switched
InitGate ==
    /\ users = TwoAccounts("ADMIN", "ACTIVE")
    /\ nextId = 3
    /\ \E mode \in {"ON", "OFF"} :
          settingsDb = [SeedSettings EXCEPT !["maintenance.mode"] = mode]
    /\ settingCache = EmptyCache
    /\ now = 0
    /\ tz = 0
    /\ tokens = {RootToken, AliceToken}
    /\ audit = <<AuditEntry(1, "user.registration", "1")>>
    /\ resp = NoRequest
    /\ LibraryIdle

NextGate ==
    \/ \E path \in {PathSnippets, PathAdminSettings, PathLogin},
          token \in {NoToken, RootToken, AliceToken}, storageFails \in BOOLEAN :
          Request(path, token, storageFails)
    \/ \E status \in Statuses : AdminSetStatus(RootToken, 2, status)
    \/ AdminResetSessions(RootToken, 2)
    \/ \E mode \in {"ON", "OFF"} : AdminUpdateSettings(RootToken, "maintenance.mode", mode)
    \/ Tick(GateStep)

SpecGate == InitGate /\ [][NextGate]_vars

\* the request just answered was an API request outside the allow-list, made
\* while maintenance mode was enabled, and the gate let it through
GatePassed ==
    /\ resp'.route = "request"
    /\ Request(resp'.path, resp'.cred, resp'.storageFails)
    /\ MaintenanceEnabled
    /\ StartsWith(resp'.path, BASE_PATH \o ApiPrefix)
    /\ ~hasBypassPath(BASE_PATH, resp'.path)
    /\ resp'.by # "maintenance"

\* C35: while maintenance mode is enabled the gate lets a non-allow-listed API
\* request through only when credential verification would accept the same
\* credential (valid signature, user exists, not suspended, session version equal)
C35_GateImpliesVerification ==
    [][GatePassed => authenticateToken(users, resp'.cred, now).next]_vars

\* the gate let the credential of a suspended administrator through, and
\* credential verification then refused it
C35_SuspendedAdminPassed ==
    /\ resp.route = "request"
    /\ resp.path = PathSnippets
    /\ resp.cred = AliceToken
    /\ resp.by = "auth"
    /\ resp.error = "Account suspended"
    /\ users[2].status = "SUSPENDED"
    /\ RoleUpper(users[2].role) = "ADMIN"
    /\ MaintenanceEnabled

\* the gate let a revoked credential through: alice's sessions were reset after
\* the credential was issued
C35_RevokedPassed ==
    /\ resp.route = "request"
    /\ resp.cred = AliceToken
    /\ resp.by = "auth"
    /\ resp.error = "Session expired"
    /\ MaintenanceEnabled

\* the request just answered went through authenticateToken, which attached an
\* identity to it
Identified ==
    /\ resp'.route = "request"
    /\ Request(resp'.path, resp'.cred, resp'.storageFails)
    /\ resp'.actor # NoId

PasswordInputs == {"pw", "new", "bad"}

\* alice logs in, changes her password (or fails to), is told to reset it and has
\* her sessions reset by root
NextPassword ==
    \/ \E password \in {"pw", "new"} : Login("alice", password)
    \/ \E token \in tokens \cup {NoToken}, currentPassword \in PasswordInputs,
          newPassword \in {"pw", "new"} :
          ChangePassword(token, currentPassword, newPassword)
    \/ AdminForcePasswordReset(RootToken, 2, TRUE)
    \/ AdminResetSessions(RootToken, 2)
    \/ \E status \in {"ACTIVE", "SUSPENDED"} : AdminSetStatus(RootToken, 2, status)
    \/ \E token \in tokens : Request(PathSnippets, token, FALSE)

SpecPassword == InitSession /\ [][NextPassword]_vars

\* the step just taken answered POST /change-password
PasswordChangeAnswered ==
    /\ resp'.route = "change-password"
    /\ \E newPassword \in {"pw", "new"} :
          ChangePassword(resp'.cred, resp'.password, newPassword)

\* every credential of the user with a session version up to v is refused
EarlierCredentialsRefused(tbl, cred, v, t) ==
    \A version \in 1..v :
        ~authenticateToken(tbl, [cred EXCEPT !.sessionVersion = version], t).next

\* C37: a successful self-service password change leaves forcePasswordReset false
\* and sessionVersion one higher, so that every credential issued before it, the
\* one that authorised it included, is refused afterwards; a failed change leaves
\* both fields of every user unchanged
C37_PasswordChange ==
    [][PasswordChangeAnswered =>
         IF resp'.status = 200
         THEN LET id == resp'.actor
              IN /\ users'[id].force_password_reset = 0
                 /\ users'[id].session_version = users[id].session_version + 1
                 /\ ~authenticateToken(users', resp'.cred, now').next
                 /\ EarlierCredentialsRefused(users', resp'.cred,
                                              users[id].session_version, now')
         ELSE \A id \in DOMAIN users :
                 /\ users'[id].force_password_reset = users[id].force_password_reset
                 /\ users'[id].session_version = users[id].session_version]_vars

\* alice, told to reset her password, changed it: the flag is cleared and the
\* credential that authorised the change is no longer accepted
C37_ChangedAndSignedOut ==
    /\ resp.route = "change-password"
    /\ resp.status = 200
    /\ resp.actor = 2
    /\ resp.cred \in tokens
    /\ users[2].force_password_reset = 0
    /\ users[2].session_version = resp.cred.sessionVersion + 1
    /\ users[2].session_version >= 3
    /\ ~authenticateToken(users, resp.cred, now).next

\* ---------------------------------------------------------------------------
\* getBooleanSetting against the gates that read the same keys
\* ---------------------------------------------------------------------------

\* String(value).toLowerCase() on the texts a mode setting takes
SettingLower(value) ==
    CASE value = "ON" -> "on"
      [] value = "OFF" -> "off"
      [] value = "TRUE" -> "true"
      [] value = "ENABLED" -> "enabled"
      [] value = "OPEN" -> "open"
      [] value = "YES" -> "yes"
      [] OTHER -> value

getBooleanSetting(cache, db, key, fallbackValue, t) ==
    SettingLower(getSetting(cache, db, key, IF fallbackValue THEN "true" ELSE "false", t))
        \in {"1", "true", "on", "yes", "enabled", "open"}

GetBooleanSettingCall(key) ==
    /\ call' = [at |-> now, dbRead |-> ~isFresh(settingCache[key], now), key |-> key,
                op |-> "getBooleanSetting", threw |-> FALSE,
                value |-> getBooleanSetting(settingCache, settingsDb, key, FALSE, now)]
    /\ settingCache' = getSettingCache(settingCache, settingsDb, key, "false", now)
    /\ UNCHANGED <<configState, settingsDb, flagDb, flagCache, changedAt>>

ModeKeys == {"maintenance.mode", "community.mode"}

ModeTexts == {"ON", "OFF", "on", "TRUE", "1", "enabled", "yes", "open"}

\* the store is written through setSetting and setFeatureFlag; getBooleanSetting,
\* the maintenance gate and the community gate read it
NextBoolean ==
    \/ \E key \in ModeKeys, value \in ModeTexts : SetSettingCall(key, value, FALSE)
    \/ \E enabled \in BOOLEAN : SetFeatureFlagCall("community.public_library", enabled, FALSE)
    \/ \E key \in ModeKeys : GetBooleanSettingCall(key)
    \/ Request(PathSnippets, NoToken, FALSE)
    \/ RequireCommunityMode
    \/ Tick(CacheStep)

SpecBoolean == InitConfig /\ [][NextBoolean]_vars

\* C38: for every stored value of maintenance.mode (community.mode) the
\* maintenance gate (community gate) is active exactly when getBooleanSetting of
\* that key is true
C38_GatesAgreeWithGetBool ==
    /\ MaintenanceEnabled
         <=> getBooleanSetting(settingCache, settingsDb, "maintenance.mode", FALSE, now)
    /\ isCommunityModeEnabled(settingCache, settingsDb, flagCache, flagDb, now)
         <=> getBooleanSetting(settingCache, settingsDb, "community.mode", FALSE, now)

\* maintenance.mode holds "yes": getBooleanSetting has just answered true, and the
\* maintenance gate is not active
C38_YesNotMaintained ==
    /\ settingsDb["maintenance.mode"] = "yes"
    /\ call.op = "getBooleanSetting"
    /\ call.key = "maintenance.mode"
    /\ call.at = now
    /\ call.value
    /\ ~MaintenanceEnabled

\* ---------------------------------------------------------------------------
\* Fallbacks of keys without a durable row
\* ---------------------------------------------------------------------------

\* getSetting(key, fallbackValue) with the fallback the caller supplies
GetSettingFallbackCall(key, fallbackValue) ==
    /\ call' = [absentSince |-> changedAt[key], at |-> now,
                cachedAt |-> settingCache[key].cachedAt,
                dbRead |-> ~isFresh(settingCache[key], now),
                fallback |-> fallbackValue, key |-> key, op |-> "getSetting",
                rowAbsent |-> settingsDb[key] = NULL, threw |-> FALSE,
                value |-> getSetting(settingCache, settingsDb, key, fallbackValue, now)]
    /\ settingCache' = getSettingCache(settingCache, settingsDb, key, fallbackValue, now)
    /\ UNCHANGED <<configState, settingsDb, flagDb, flagCache, changedAt>>

\* getFeatureFlag(key, fallbackValue) with the fallback the caller supplies
GetFeatureFlagFallbackCall(key, fallbackValue) ==
    /\ call' = [absentSince |-> changedAt[key], at |-> now,
                cachedAt |-> flagCache[key].cachedAt,
                dbRead |-> ~isFresh(flagCache[key], now),
                fallback |-> fallbackValue, key |-> key, op |-> "getFeatureFlag",
                rowAbsent |-> flagDb[key] = NoFlag, threw |-> FALSE,
                value |-> getFeatureFlag(flagCache, flagDb, key, fallbackValue, now)]
    /\ flagCache' = getFeatureFlagCache(flagCache, flagDb, key, fallbackValue, now)
    /\ UNCHANGED <<configState, settingsDb, settingCache, flagDb, changedAt>>

\* the rows of one setting and one flag are removed from and put back into the
\* durable store while callers read them with differing fallbacks
NextFallback ==
    \/ \E fallbackValue \in SettingValues : GetSettingFallbackCall(CfgSetting, fallbackValue)
    \/ \E fallbackValue \in BOOLEAN : GetFeatureFlagFallbackCall(CfgFlag, fallbackValue)
    \/ \E value \in {NULL, "ON"} : ExternalSettingChange(CfgSetting, value)
    \/ \E enabled \in {NoFlag, 1} : ExternalFlagChange(CfgFlag, enabled)
    \/ Tick(CacheStep)

SpecFallback == InitConfig /\ [][NextFallback]_vars

\* the call just made read a key that had no durable row, and whatever the cache
\* held for the key had been put there after the row was gone
FallbackCall ==
    /\ call.op \in {"getSetting", "getFeatureFlag"}
    /\ call.rowAbsent
    /\ call.dbRead \/ call.cachedAt > call.absentSince

\* C39: for a key without a durable row getSetting and getFeatureFlag return the
\* fallback supplied by that very call, whatever fallback an earlier call for the
\* same key supplied within the freshness window
C39_OwnFallbackReturned ==
    FallbackCall => call.value = call.fallback

\* the row of the setting is absent, a call with fallback "OFF" was followed within
\* the freshness window by a call with fallback "ON", and that call returned "OFF"
C39_EarlierFallbackReturned ==
    /\ call.op = "getSetting"
    /\ call.rowAbsent
    /\ ~call.dbRead
    /\ call.cachedAt > call.absentSince
    /\ call.fallback = "ON"
    /\ call.value = "OFF"
    /\ settingsDb[CfgSetting] = NULL
    /\ settingCache[CfgSetting].value = "OFF"

\* ---------------------------------------------------------------------------
\* The two representations of lifecycle and privilege
\* ---------------------------------------------------------------------------

\* accounts are registered on an empty installation and then moved through
\* updateStatus, updateRole and unlockUser
NextLifecycle ==
    \/ \E username \in {"root", "alice"} : Register(username, "pw")
    \/ \E id \in {1, 2}, status \in Statuses : UpdateStatusCall(id, status)
    \/ \E id \in {1, 2}, role \in {"USER", "MODERATOR", "ADMIN"} : UpdateRoleCall(id, role)
    \/ \E id \in {1, 2} : UnlockUserCall(id)

SpecLifecycle == InitRegistration /\ [][NextLifecycle]_vars

LifecycleAgrees(user) == (user.is_active = 0) <=> (user.status = "SUSPENDED")

PrivilegeAgrees(user) == (user.is_admin = 1) <=> (user.role \in {"SUPER_ADMIN", "ADMIN"})

\* C40: in every reachable state is_active = 0 exactly when status = SUSPENDED and
\* is_admin = 1 exactly when role is SUPER_ADMIN or ADMIN, for every user
C40_RepresentationsAgree ==
    \A id \in DOMAIN users : LifecycleAgrees(users[id]) /\ PrivilegeAgrees(users[id])

\* a suspended account was unlocked: its status reads ACTIVE while is_active is
\* still 0
C40_UnlockedStillInactive ==
    /\ call.op = "unlockUser"
    /\ call.id \in DOMAIN users
    /\ users[call.id].status = "ACTIVE"
    /\ users[call.id].is_active = 0

=============================================================================
